---- MODULE Spec2Model ----
(***************************************************************************)
(* Model of the recipe bulk editor's reconciliation core:                  *)
(*   app/core/xml_model.py  (NodeBase, ParameterNode, FormulaValueNode,    *)
(*                           RecipeTree)                                   *)
(*   app/core/exporter.py   (ExcelExporter.export)                         *)
(*   app/core/importer.py   (ExcelImporter.import_changes)                 *)
(*                                                                         *)
(* A string is a sequence of tokens.  The literal pieces of the path       *)
(* f-strings ("/Parameter[", "/Steps/Step[", "]", "/FormulaValue[") are    *)
(* tokens, a blank " " is a token, and every other token is an opaque      *)
(* piece of text.  Tag names and column names are TLA+ strings.            *)
(***************************************************************************)
EXTENDS Integers, Sequences, FiniteSets, TLC

(***************************************************************************)
(* Bounds of the model.                                                    *)
(***************************************************************************)
\* rows a user appends below the exported rows of one sheet
MaxNewRows == 2

(***************************************************************************)
(* Strings.                                                                *)
(***************************************************************************)
\* Python None where a string is expected (lxml .text of <X/>, an empty cell)
NoText == <<"<None>">>
EmptyStr == <<>>
Blank == <<" ">>

\* `x or ""`
OrEmpty(t) == IF t = NoText THEN EmptyStr ELSE t

RECURSIVE lstrip(_)
lstrip(s) == IF s # <<>> /\ Head(s) = " " THEN lstrip(Tail(s)) ELSE s

RECURSIVE rstrip(_)
rstrip(s) ==
    IF s # <<>> /\ s[Len(s)] = " " THEN rstrip(SubSeq(s, 1, Len(s) - 1)) ELSE s

\* str.strip()
strip(s) == rstrip(lstrip(s))

\* utils.string.safe_strip: None gives "", a string is stripped
safe_strip(v) == IF v = NoText THEN EmptyStr ELSE strip(v)

(***************************************************************************)
(* Python dict: insertion ordered, a sequence of [k, v] with distinct k.   *)
(***************************************************************************)
HasKey(d, k) == \E i \in DOMAIN d : d[i].k = k

Get(d, k, default) ==
    IF HasKey(d, k) THEN d[CHOOSE i \in DOMAIN d : d[i].k = k].v ELSE default

Put(d, k, v) ==
    IF HasKey(d, k)
    THEN [i \in DOMAIN d |-> IF d[i].k = k THEN [k |-> k, v |-> v] ELSE d[i]]
    ELSE Append(d, [k |-> k, v |-> v])

Keys(d) == [i \in DOMAIN d |-> d[i].k]

Range(s) == {s[i] : i \in DOMAIN s}

\* F applied to the value of v, with v evaluated once
With(v, F(_)) == CHOOSE r \in {F(x) : x \in {v}} : TRUE

(***************************************************************************)
(* lxml element store.  E is a sequence of elements, an element's id is    *)
(* its index; id 0 is None.  An element is attached to at most one parent. *)
(***************************************************************************)
NoElem == 0

\* etree.Element(tag): a fresh detached element, its id is Len(E) + 1
MakeElement(E, tag) ==
    Append(E, [tag |-> tag, text |-> NoText, attrib |-> <<>>, kids |-> <<>>])

NewId(E) == Len(E) + 1

SetText(E, id, text) == [E EXCEPT ![id].text = text]

\* parent.append(c)
AppendChild(E, p, c) == [E EXCEPT ![p].kids = Append(@, c)]

\* parent.insert(idx, c), idx 0-based
InsertChild(E, p, idx, c) ==
    [E EXCEPT ![p].kids = SubSeq(@, 1, idx) \o <<c>> \o SubSeq(@, idx + 1, Len(@))]

\* parent.remove(c)
RemoveChild(E, p, c) ==
    [E EXCEPT ![p].kids = SelectSeq(@, LAMBDA x : x # c)]

\* etree.SubElement(parent, tag): the new element has id NewId(E)
SubElement(E, p, tag) == AppendChild(MakeElement(E, tag), p, NewId(E))

\* c.getparent()
GetParent(E, c) ==
    IF \E p \in DOMAIN E : c \in Range(E[p].kids)
    THEN CHOOSE p \in DOMAIN E : c \in Range(E[p].kids)
    ELSE NoElem

\* parent.index(c), 0-based
IndexOf(E, p, c) == (CHOOSE i \in DOMAIN E[p].kids : E[p].kids[i] = c) - 1

\* parent.findall("{ns}tag"): the direct children with that tag, in order
FindAll(E, p, tag) == SelectSeq(E[p].kids, LAMBDA c : E[c].tag = tag)

\* parent.find("{ns}tag"): the first direct child with that tag, or None
Find(E, p, tag) ==
    IF FindAll(E, p, tag) = <<>> THEN NoElem ELSE Head(FindAll(E, p, tag))

\* the descendants of p in document order
RECURSIVE Descendants(_, _)
RECURSIVE DescendantsOfAll(_, _)
Descendants(E, p) == DescendantsOfAll(E, E[p].kids)
DescendantsOfAll(E, cs) ==
    IF cs = <<>> THEN <<>>
    ELSE <<Head(cs)>> \o Descendants(E, Head(cs)) \o DescendantsOfAll(E, Tail(cs))

\* root.findall(".//{ns}tag")
FindAllDeep(E, p, tag) == SelectSeq(Descendants(E, p), LAMBDA c : E[c].tag = tag)

\* whether c is in the tree below (or is) the root
RootId == 1
Attached(E, c) == c = RootId \/ c \in Range(Descendants(E, RootId))

(***************************************************************************)
(* Input documents, written as nested elements and parsed into a store.    *)
(***************************************************************************)
\* <tag>text</tag>, or <tag/> when text is NoText
Leaf(tag, text) == [tag |-> tag, text |-> text, attrib |-> <<>>, kids |-> <<>>]

\* an element with children; its own text is the indentation before them
Node(tag, kids) == [tag |-> tag, text |-> Blank, attrib |-> <<>>, kids |-> kids]

NodeA(tag, attrib, kids) ==
    [tag |-> tag, text |-> Blank, attrib |-> attrib, kids |-> kids]

RECURSIVE ParseInto(_, _, _)
RECURSIVE ParseAllInto(_, _, _)
ParseInto(E, p, x) ==
    LET E1 == IF p = NoElem THEN MakeElement(E, x.tag) ELSE SubElement(E, p, x.tag)
        id == NewId(E)
        E2 == [E1 EXCEPT ![id].text = x.text, ![id].attrib = x.attrib]
    IN  ParseAllInto(E2, id, x.kids)
ParseAllInto(E, p, xs) ==
    IF xs = <<>> THEN E ELSE ParseAllInto(ParseInto(E, p, Head(xs)), p, Tail(xs))

\* etree.parse(path): the root gets id RootId
ParseXml(x) == ParseInto(<<>>, NoElem, x)

(***************************************************************************)
(* The documents the model parses.                                         *)
(***************************************************************************)
\* tests/test_flow_excel2xml.py SAMPLE_XML
TestDoc ==
    Node("RecipeElement", <<
        Leaf("RecipeElementID", <<"TEST">>),
        Node("Parameter", <<
            Leaf("Name", <<"Param1">>), Leaf("ERPAlias", NoText),
            Leaf("PLCReference", <<"1">>), Leaf("Real", <<"0">>),
            Leaf("High", <<"100">>), Leaf("Low", <<"0">>),
            Leaf("EngineeringUnits", NoText), Leaf("Scale", <<"false">>) >>),
        Node("Parameter", <<
            Leaf("Name", <<"Param2">>), Leaf("ERPAlias", NoText),
            Leaf("PLCReference", <<"1">>), Leaf("Integer", <<"5">>),
            Leaf("High", <<"10">>), Leaf("Low", <<"1">>),
            Leaf("EngineeringUnits", NoText), Leaf("Scale", <<"false">>) >>),
        Node("Steps", <<
            Node("Step", <<
                Leaf("Name", <<"Step1">>),
                Node("FormulaValue", <<
                    Leaf("Name", <<"FV1">>), Leaf("Display", <<"false">>),
                    Leaf("Value", NoText), Leaf("Integer", <<"2">>),
                    Leaf("EngineeringUnits", NoText),
                    NodeA("FormulaValueLimit",
                          <<[k |-> "Verification", v |-> <<"No_Limits">>]>>, <<
                        Leaf("LowLowLowValue", <<"0.">>),
                        Leaf("LowLowValue", <<"0.">>),
                        Leaf("LowValue", <<"0.">>),
                        Leaf("HighValue", <<"0.">>),
                        Leaf("HighHighValue", <<"0.">>),
                        Leaf("HighHighHighValue", <<"0.">>) >>) >>) >>) >>) >>)

\* tests/test_param_expression.py PARAM_EXPR_XML
ExprDoc ==
    Node("RecipeElement", <<
        Leaf("RecipeElementID", <<"EXPR">>),
        Node("Steps", <<
            Node("Step", <<
                Leaf("Name", <<"StepExpr">>),
                Node("FormulaValue", <<
                    Leaf("Name", <<"FV_EXPR">>), Leaf("Display", <<"false">>),
                    Leaf("ParamExpression", NoText),
                    Leaf("Real", <<"CP.GENE.EXPR * 2">>),
                    Leaf("EngineeringUnits", <<"mL">>) >>) >>) >>) >>)

\* a unit procedure with a deferred FormulaValue and a nested sub-step whose
\* FormulaValue has the same name
DeferDoc ==
    Node("RecipeElement", <<
        Leaf("RecipeElementID", <<"UP">>),
        Node("Parameter", <<
            Leaf("Name", <<"P1">>), Leaf("ERPAlias", NoText),
            Leaf("PLCReference", <<"1">>), Leaf("String", <<"abc">>),
            Leaf("EngineeringUnits", NoText) >>),
        Node("Steps", <<
            Node("Step", <<
                Leaf("Name", <<"S1">>),
                Node("FormulaValue", <<
                    Leaf("Name", <<"A">>), Leaf("Display", <<"false">>),
                    Leaf("Defer", <<"P1">>), Leaf("Real", <<"0">>),
                    Leaf("EngineeringUnits", NoText) >>),
                Node("Step", <<
                    Leaf("Name", <<"S2">>),
                    Node("FormulaValue", <<
                        Leaf("Name", <<"A">>), Leaf("Display", <<"false">>),
                        Leaf("Value", <<"7">>), Leaf("String", NoText),
                        Leaf("EnumerationMember", NoText) >>) >>) >>) >>) >>)

\* a procedure in which a nested sub-step of the first Step carries the name
\* of the second Step
TwinDoc ==
    Node("RecipeElement", <<
        Leaf("RecipeElementID", <<"TW">>),
        Node("Steps", <<
            Node("Step", <<
                Leaf("Name", <<"S1">>),
                Node("Step", <<
                    Leaf("Name", <<"S2">>),
                    Node("FormulaValue", <<
                        Leaf("Name", <<"A">>), Leaf("Display", <<"false">>),
                        Leaf("Value", <<"1">>), Leaf("Integer", <<"1">>),
                        Leaf("EngineeringUnits", NoText) >>) >>) >>),
            Node("Step", <<
                Leaf("Name", <<"S2">>),
                Node("FormulaValue", <<
                    Leaf("Name", <<"B">>), Leaf("Display", <<"false">>),
                    Leaf("Value", <<"2">>), Leaf("Integer", <<"2">>),
                    Leaf("EngineeringUnits", NoText) >>) >>) >>) >>)

\* a recipe whose Parameter has none of the four data-type children
UntypedDoc ==
    Node("RecipeElement", <<
        Leaf("RecipeElementID", <<"UT">>),
        Node("Parameter", <<
            Leaf("Name", <<"Q">>), Leaf("ERPAlias", NoText),
            Leaf("PLCReference", <<"1">>) >>),
        Node("Steps", <<
            Node("Step", <<
                Leaf("Name", <<"S1">>),
                Node("FormulaValue", <<
                    Leaf("Name", <<"A">>), Leaf("Display", <<"false">>),
                    Leaf("Value", <<"1">>), Leaf("String", <<"x">>) >>) >>) >>) >>)

\* RecipeTree.__init__
RecipeTree(path, doc) ==
    [filepath |-> path, E |-> ParseXml(doc),
     parameters |-> <<>>, formula_values |-> <<>>]

(***************************************************************************)
(* core/base.py                                                            *)
(***************************************************************************)
FVL_PREFIX == "FormulaValueLimit_"

EXCEL_COLUMNS ==
    << "TagType", "Name", "FullPath", "Real", "Integer", "High", "Low",
       "String", "EnumerationSet", "EnumerationMember", "Defer",
       "FormulaValueLimit_Verification", "FormulaValueLimit_LowLowLowValue",
       "FormulaValueLimit_LowLowValue", "FormulaValueLimit_LowValue",
       "FormulaValueLimit_HighValue", "FormulaValueLimit_HighHighValue",
       "FormulaValueLimit_HighHighHighValue" >>

\* the child names of a FormulaValueLimit block
FVL_CHILDREN ==
    { "Verification", "LowLowLowValue", "LowLowValue", "LowValue", "HighValue",
      "HighHighValue", "HighHighHighValue" }

\* k.startswith("FormulaValueLimit_"), over the column names of the model
StartsWithFVL(k) == k \in {FVL_PREFIX \o n : n \in FVL_CHILDREN}

(***************************************************************************)
(* NodeBase, ParameterNode.to_excel_row, FormulaValueNode.to_excel_row     *)
(***************************************************************************)
RECURSIVE SnapshotOf(_, _, _)
SnapshotOf(E, cs, d) ==
    IF cs = <<>> THEN d
    ELSE SnapshotOf(E, Tail(cs), Put(d, E[Head(cs)].tag, OrEmpty(E[Head(cs)].text)))

\* NodeBase.__init__
NodeBase(E, element, fullpath) ==
    [element |-> element, fullpath |-> fullpath,
     original_subs |-> SnapshotOf(E, E[element].kids, <<>>)]

\* row[col] = original_subs.get(col, "") for each col of cols
RECURSIVE CopyCols(_, _, _)
CopyCols(row, subs, cols) ==
    IF cols = <<>> THEN row
    ELSE CopyCols(Put(row, Head(cols), Get(subs, Head(cols), EmptyStr)), subs, Tail(cols))

\* for k, v in original_subs.items(): if k not in row: row[k] = v
RECURSIVE CopyRest(_, _)
CopyRest(row, subs) ==
    IF subs = <<>> THEN row
    ELSE CopyRest(IF HasKey(row, Head(subs).k) THEN row
                  ELSE Put(row, Head(subs).k, Head(subs).v), Tail(subs))

ParameterToExcelRow(E, node) ==
    LET r0 == << [k |-> "TagType", v |-> <<"Parameter">>],
                 [k |-> "Name", v |-> Get(node.original_subs, "Name", EmptyStr)],
                 [k |-> "FullPath", v |-> node.fullpath] >>
        r1 == CopyCols(r0, node.original_subs,
                       << "Real", "Integer", "High", "Low", "String",
                          "EnumerationSet", "EnumerationMember" >>)
        r2 == Put(r1, "Defer", EmptyStr)
    IN  CopyRest(r2, node.original_subs)

\* for child in fvl: row["FormulaValueLimit_" + name] = child.text or ""
RECURSIVE CopyLimits(_, _, _)
CopyLimits(E, row, cs) ==
    IF cs = <<>> THEN row
    ELSE CopyLimits(E, Put(row, FVL_PREFIX \o E[Head(cs)].tag,
                           OrEmpty(E[Head(cs)].text)), Tail(cs))

\* for col in EXCEL_COLUMNS: if col.startswith("FormulaValueLimit_"): row[col] = ""
RECURSIVE BlankLimits(_, _)
BlankLimits(row, cols) ==
    IF cols = <<>> THEN row
    ELSE BlankLimits(IF StartsWithFVL(Head(cols)) THEN Put(row, Head(cols), EmptyStr)
                     ELSE row, Tail(cols))

FormulaValueToExcelRow(E, node) ==
    LET defer == Get(node.original_subs, "Defer", EmptyStr)
        r0 == << [k |-> "TagType", v |-> <<"FormulaValue">>],
                 [k |-> "Name", v |-> Get(node.original_subs, "Name", EmptyStr)],
                 [k |-> "FullPath", v |-> node.fullpath],
                 [k |-> "Defer", v |-> defer],
                 [k |-> "Value", v |-> IF defer # EmptyStr THEN EmptyStr
                                       ELSE Get(node.original_subs, "Value", EmptyStr)] >>
        r1 == CopyCols(r0, node.original_subs,
                       << "Real", "Integer", "String", "EnumerationSet",
                          "EnumerationMember" >>)
        fvl == Find(E, node.element, "FormulaValueLimit")
        r2 == IF fvl # NoElem
              THEN CopyLimits(E, Put(r1, "FormulaValueLimit_Verification",
                                     Get(E[fvl].attrib, "Verification", EmptyStr)),
                              E[fvl].kids)
              ELSE BlankLimits(r1, EXCEL_COLUMNS)
    IN  CopyRest(r2, node.original_subs)

(***************************************************************************)
(* RecipeTree.extract_nodes                                                *)
(***************************************************************************)
ParameterPath(rid, name) == rid \o <<"/Parameter[">> \o name \o <<"]">>

FormulaValuePath(rid, step_name, name) ==
    rid \o <<"/Steps/Step[">> \o step_name \o <<"]", "/FormulaValue[">> \o name \o <<"]">>

\* (el.find("Name").text or "")
NameText(E, el) == OrEmpty(E[Find(E, el, "Name")].text)

RecipeId(E) ==
    IF Find(E, RootId, "RecipeElementID") = NoElem THEN EmptyStr
    ELSE OrEmpty(E[Find(E, RootId, "RecipeElementID")].text)

extract_nodes(t) ==
    LET E == t.E
        rid == RecipeId(E)
        ps == FindAll(E, RootId, "Parameter")
        fvs == FindAllDeep(E, RootId, "FormulaValue")
    IN  [t EXCEPT
           !.parameters = t.parameters \o
               [i \in DOMAIN ps |->
                   NodeBase(E, ps[i], ParameterPath(rid, NameText(E, ps[i])))],
           !.formula_values = t.formula_values \o
               [i \in DOMAIN fvs |->
                   NodeBase(E, fvs[i],
                       FormulaValuePath(rid, NameText(E, GetParent(E, fvs[i])),
                                        NameText(E, fvs[i])))]]

(***************************************************************************)
(* Exceptions.  NoExc means the call returned.                             *)
(***************************************************************************)
NoExc == "-"

(***************************************************************************)
(* ParameterNode / FormulaValueNode: reorder_children                      *)
(***************************************************************************)
\* {QName(c.tag).localname: c for c in self.element}: the last child of a tag wins
RECURSIVE ChildrenByTag(_, _, _)
ChildrenByTag(E, cs, d) ==
    IF cs = <<>> THEN d
    ELSE ChildrenByTag(E, Tail(cs), Put(d, E[Head(cs)].tag, Head(cs)))

\* a faulty variant of the orderings: the Integer ordering has Low before High
ParameterOrderSwapped(children) ==
    IF HasKey(children, "String")
    THEN << "Name", "ERPAlias", "PLCReference", "String", "EngineeringUnits" >>
    ELSE IF HasKey(children, "Integer")
    THEN << "Name", "ERPAlias", "PLCReference", "Integer", "Low", "High",
            "EngineeringUnits", "Scale" >>
    ELSE IF HasKey(children, "Real")
    THEN << "Name", "ERPAlias", "PLCReference", "Real", "High", "Low",
            "EngineeringUnits", "Scale" >>
    ELSE IF HasKey(children, "EnumerationSet")
    THEN << "Name", "ERPAlias", "PLCReference", "EnumerationSet",
            "EnumerationMember" >>
    ELSE <<>>

\* the four fixed orderings of ParameterNode.reorder_children; <<>> stands for
\* the else branch (no recognized type)
ParameterOrder(children) ==
    IF HasKey(children, "String")
    THEN << "Name", "ERPAlias", "PLCReference", "String", "EngineeringUnits" >>
    ELSE IF HasKey(children, "Integer")
    THEN << "Name", "ERPAlias", "PLCReference", "Integer", "High", "Low",
            "EngineeringUnits", "Scale" >>
    ELSE IF HasKey(children, "Real")
    THEN << "Name", "ERPAlias", "PLCReference", "Real", "High", "Low",
            "EngineeringUnits", "Scale" >>
    ELSE IF HasKey(children, "EnumerationSet")
    THEN << "Name", "ERPAlias", "PLCReference", "EnumerationSet",
            "EnumerationMember" >>
    ELSE <<>>

\* for tag in order: el = children.get(tag) or etree.Element(tag); append(el)
RECURSIVE AppendInOrder(_, _, _, _)
AppendInOrder(E, p, children, order) ==
    IF order = <<>> THEN E
    ELSE LET el == Get(children, Head(order), NoElem)
         IN  IF el = NoElem
             THEN AppendInOrder(SubElement(E, p, Head(order)), p, children, Tail(order))
             ELSE AppendInOrder(AppendChild(E, p, el), p, children, Tail(order))

\* for c in list(self.element): self.element.remove(c)
RemoveAllChildren(E, p) == [E EXCEPT ![p].kids = <<>>]

ParameterReorder(E, node) ==
    LET children == ChildrenByTag(E, E[node.element].kids, <<>>)
        order == ParameterOrder(children)
    IN  IF order = <<>> THEN [E |-> E, exc |-> "ValidationError"]
        ELSE [E |-> AppendInOrder(RemoveAllChildren(E, node.element), node.element,
                                  children, order),
              exc |-> NoExc]

DATA_TYPES == << "Integer", "Real", "String", "EnumerationSet" >>

\* the data-type tags found among the children, in the order of the loop
TypesFound(children) == SelectSeq(DATA_TYPES, LAMBDA t : HasKey(children, t))

\* a faulty variant of the order list: Defer and Value are exchanged
FormulaValueOrderFlipped(children) ==
    LET found == SelectSeq(DATA_TYPES, LAMBDA t : HasKey(children, t))
        dtype == found[Len(found)]
    IN  << "Name", "Display" >>
        \o (IF HasKey(children, "Defer") THEN <<"Value">> ELSE <<"Defer">>)
        \o found
        \o (IF HasKey(children, "EnumerationMember") THEN <<"EnumerationMember">> ELSE <<>>)
        \o (IF dtype \in {"Integer", "Real"} THEN <<"EngineeringUnits">> ELSE <<>>)
        \o (IF HasKey(children, "FormulaValueLimit") THEN <<"FormulaValueLimit">> ELSE <<>>)

\* the order list of FormulaValueNode.reorder_children, given a data type exists
FormulaValueOrder(children) ==
    LET found == TypesFound(children)
        dtype == found[Len(found)]
    IN  << "Name", "Display" >>
        \o (IF HasKey(children, "Defer") THEN <<"Defer">> ELSE <<"Value">>)
        \o found
        \o (IF HasKey(children, "EnumerationMember") THEN <<"EnumerationMember">> ELSE <<>>)
        \o (IF dtype \in {"Integer", "Real"} THEN <<"EngineeringUnits">> ELSE <<>>)
        \o (IF HasKey(children, "FormulaValueLimit") THEN <<"FormulaValueLimit">> ELSE <<>>)

FormulaValueReorder(E, node) ==
    LET children == ChildrenByTag(E, E[node.element].kids, <<>>)
    IN  IF TypesFound(children) = <<>>
        THEN \* `dtype` is read before any assignment
             [E |-> E, exc |-> "UnboundLocalError"]
        ELSE [E |-> AppendInOrder(RemoveAllChildren(E, node.element), node.element,
                                  children, FormulaValueOrder(children)),
              exc |-> NoExc]

(***************************************************************************)
(* ParameterNode / FormulaValueNode: update_from_dict                      *)
(***************************************************************************)
\* sum(bool(row[f].strip()) for f in type_fields)
TypeCount(row, type_fields) ==
    Cardinality({f \in type_fields : strip(Get(row, f, EmptyStr)) # EmptyStr})

\* the threshold of `if count > 2`
TYPE_LIMIT == 2

\* a faulty variant of the loop body: the child's text is compared as stored,
\* not stripped
ApplyCellRaw(S, node, k, new_val) ==
    LET text == safe_strip(new_val)
        el == Find(S.E, node.element, k)
    IN  IF text = EmptyStr /\ ~HasKey(node.original_subs, k) THEN S
        ELSE IF el = NoElem
        THEN [E |-> SetText(SubElement(S.E, node.element, k), NewId(S.E), text),
              changed |-> TRUE]
        ELSE IF text # S.E[el].text
        THEN [E |-> SetText(S.E, el, text), changed |-> TRUE]
        ELSE S

\* a faulty variant of the loop body: a blank cell of a field that is not in
\* the snapshot is skipped only when the field is one of the fixed columns
ApplyCellUnknown(S, node, k, new_val) ==
    LET text == safe_strip(new_val)
        el == Find(S.E, node.element, k)
    IN  IF text = EmptyStr /\ ~HasKey(node.original_subs, k)
           /\ k \in {EXCEL_COLUMNS[i] : i \in DOMAIN EXCEL_COLUMNS}
        THEN S
        ELSE IF el = NoElem
        THEN [E |-> SetText(SubElement(S.E, node.element, k), NewId(S.E), text),
              changed |-> TRUE]
        ELSE IF text # safe_strip(S.E[el].text)
        THEN [E |-> SetText(S.E, el, text), changed |-> TRUE]
        ELSE S

\* the body of the loop once the field is not skipped: create or update the child
ApplyCell(S, node, k, new_val) ==
    LET text == safe_strip(new_val)
        el == Find(S.E, node.element, k)
    IN  IF text = EmptyStr /\ ~HasKey(node.original_subs, k) THEN S
        ELSE IF el = NoElem
        THEN [E |-> SetText(SubElement(S.E, node.element, k), NewId(S.E), text),
              changed |-> TRUE]
        ELSE IF text # safe_strip(S.E[el].text)
        THEN [E |-> SetText(S.E, el, text), changed |-> TRUE]
        ELSE S

ParameterSkips(row, k) ==
    k \in {"TagType", "FullPath", "Defer"} \/ StartsWithFVL(k)

\* a faulty variant of the skips: a blank Defer cell is applied like any
\* other cell
FormulaValueSkipsValueOnly(row, k) ==
    \/ k \in {"FormulaValueLimit_" \o n :
                n \in { "Verification", "LowLowLowValue", "LowLowValue", "LowValue",
                        "HighValue", "HighHighValue", "HighHighHighValue" }}
    \/ k \in {"TagType", "FullPath"}
    \/ /\ k = "Value"
       /\ \E i \in DOMAIN row : row[i].k = "Defer" /\ row[i].v \notin {<<>>, <<" ">>}

FormulaValueSkips(row, k) ==
    \/ StartsWithFVL(k) \/ k \in {"TagType", "FullPath"}
    \/ (k = "Value" /\ strip(Get(row, "Defer", EmptyStr)) # EmptyStr)
    \/ (k = "Defer" /\ safe_strip(Get(row, k, EmptyStr)) = EmptyStr)

RECURSIVE ParameterApplyRow(_, _, _, _)
ParameterApplyRow(S, node, row, items) ==
    IF items = <<>> THEN S
    ELSE ParameterApplyRow(
            IF ParameterSkips(row, Head(items).k) THEN S
            ELSE ApplyCell(S, node, Head(items).k, Head(items).v),
            node, row, Tail(items))

RECURSIVE FormulaValueApplyRow(_, _, _, _)
FormulaValueApplyRow(S, node, row, items) ==
    IF items = <<>> THEN S
    ELSE FormulaValueApplyRow(
            IF FormulaValueSkips(row, Head(items).k) THEN S
            ELSE ApplyCell(S, node, Head(items).k, Head(items).v),
            node, row, Tail(items))

\* the result of update_from_dict: the store as the call leaves it, the value
\* returned, and the exception raised if any
ParameterUpdate(E, node, row) ==
    IF TypeCount(row, {"Real", "Integer", "String", "EnumerationSet"}) > TYPE_LIMIT
    THEN [E |-> E, changed |-> FALSE, exc |-> "TypeConflictError"]
    ELSE With(ParameterApplyRow([E |-> E, changed |-> FALSE], node, row, row),
              LAMBDA S :
                IF S.changed
                THEN With(ParameterReorder(S.E, node),
                          LAMBDA R : [E |-> R.E, changed |-> TRUE, exc |-> R.exc])
                ELSE [E |-> S.E, changed |-> FALSE, exc |-> NoExc])

FormulaValueUpdate(E, node, row) ==
    IF TypeCount(row, {"Real", "Integer", "String", "EnumerationSet", "Defer"}) > TYPE_LIMIT
    THEN [E |-> E, changed |-> FALSE, exc |-> "TypeConflictError"]
    ELSE With(FormulaValueApplyRow([E |-> E, changed |-> FALSE], node, row, row),
              LAMBDA S :
                IF S.changed
                THEN With(FormulaValueReorder(S.E, node),
                          LAMBDA R : [E |-> R.E, changed |-> TRUE, exc |-> R.exc])
                ELSE [E |-> S.E, changed |-> FALSE, exc |-> NoExc])

(***************************************************************************)
(* RecipeTree: find_parameter, find_formulavalue, create_parameter,        *)
(* create_formulavalue                                                     *)
(***************************************************************************)
\* next((n for n in nodes if n.fullpath == fullpath), None): an index, 0 for None
FindNode(nodes, fullpath) ==
    IF \E i \in DOMAIN nodes : nodes[i].fullpath = fullpath
    THEN CHOOSE i \in DOMAIN nodes :
            /\ nodes[i].fullpath = fullpath
            /\ \A j \in 1..(i - 1) : nodes[j].fullpath # fullpath
    ELSE 0

\* a faulty variant of step 2: the new element is appended to the root
InsertNewParameterLast(E) ==
    AppendChild(MakeElement(E, "Parameter"), RootId, NewId(E))

\* the store after step 2 of create_parameter: the new element is NewId(E)
InsertNewParameter(E) ==
    LET E1 == MakeElement(E, "Parameter")
        new_el == NewId(E)
        existing == FindAll(E, RootId, "Parameter")
        steps == Find(E, RootId, "Steps")
    IN  IF existing # <<>>
        THEN InsertChild(E1, RootId, IndexOf(E, RootId, existing[Len(existing)]) + 1, new_el)
        ELSE IF steps # NoElem
        THEN InsertChild(E1, RootId, IndexOf(E, RootId, steps), new_el)
        ELSE AppendChild(E1, RootId, new_el)

\* step 3 of create_parameter: wrap the new element, apply the row, track it
WrapParameter(t, E1, node, row) ==
    With(ParameterUpdate(E1, node, row),
         LAMBDA U :
           IF U.exc # NoExc
           THEN [t |-> [t EXCEPT !.E = U.E], exc |-> U.exc]
           ELSE [t |-> [t EXCEPT !.E = U.E, !.parameters = Append(@, node)],
                 exc |-> NoExc])

create_parameter(t, row) ==
    With(InsertNewParameter(t.E),
         LAMBDA E1 :
           WrapParameter(t, E1,
                         NodeBase(E1, NewId(t.E), Get(row, "FullPath", EmptyStr)), row))

\* re.match(r".*/Steps/Step\[(.*?)\]/FormulaValue\[.*\]$", s): the places i of
\* "/Steps/Step[" and j of "]/FormulaValue[" of a match
StepMatches(s) ==
    { m \in (DOMAIN s) \X (DOMAIN s) :
        /\ s[m[1]] = "/Steps/Step["
        /\ m[2] > m[1] /\ m[2] + 2 <= Len(s)
        /\ s[m[2]] = "]" /\ s[m[2] + 1] = "/FormulaValue["
        /\ s[Len(s)] = "]" }

\* group(1) of the match: the greedy .* takes the last i, the lazy group the
\* first j after it
StepGroup(s) ==
    LET i == CHOOSE i \in {m[1] : m \in StepMatches(s)} :
                 \A m \in StepMatches(s) : m[1] <= i
        j == CHOOSE j \in {m[2] : m \in {x \in StepMatches(s) : x[1] = i}} :
                 \A m \in {x \in StepMatches(s) : x[1] = i} : j <= m[2]
    IN  SubSeq(s, i + 1, j - 1)

\* the Steps whose Name text equals step_name, in document order
StepsNamed(E, step_name) ==
    SelectSeq(FindAllDeep(E, RootId, "Step"),
              LAMBDA st : E[Find(E, st, "Name")].text = step_name)

\* lines 373-375: wrap the new element, apply the row, track it
WrapFormulaValue(t, E1, node, row) ==
    With(FormulaValueUpdate(E1, node, row),
         LAMBDA U :
           IF U.exc # NoExc
           THEN [t |-> [t EXCEPT !.E = U.E], exc |-> U.exc]
           ELSE [t |-> [t EXCEPT !.E = U.E, !.formula_values = Append(@, node)],
                 exc |-> NoExc])

create_formulavalue(t, row) ==
    LET fp == Get(row, "FullPath", EmptyStr)
    IN  IF StepMatches(fp) = {}
        THEN [t |-> t, exc |-> "ValidationError"]
        ELSE IF StepsNamed(t.E, StepGroup(fp)) = <<>>
        THEN \* next() of an exhausted generator, with no default
             [t |-> t, exc |-> "StopIteration"]
        ELSE With(SubElement(t.E, Head(StepsNamed(t.E, StepGroup(fp))), "FormulaValue"),
                  LAMBDA E1 : WrapFormulaValue(t, E1, NodeBase(E1, NewId(t.E), fp), row))

(***************************************************************************)
(* ExcelExporter.export                                                    *)
(***************************************************************************)
\* sorted(all_extras): the extra column names of the model in Python's string order
SORTED_TAGS ==
    << "Display", "ERPAlias", "EngineeringUnits", "FormulaValueLimit",
       "PLCReference", "ParamExpression", "Scale", "Value" >>

\* node.to_excel_row() for node in t.parameters + t.formula_values
TreeRows(t) ==
    [i \in DOMAIN t.parameters |-> ParameterToExcelRow(t.E, t.parameters[i])]
    \o [i \in DOMAIN t.formula_values |->
            FormulaValueToExcelRow(t.E, t.formula_values[i])]

\* all_extras, over every tree
AllExtras(ts) ==
    { k \in UNION { Range(Keys(r)) : r \in UNION { Range(TreeRows(ts[i])) : i \in DOMAIN ts } } :
        k \notin Range(EXCEL_COLUMNS) }

ExportHeader(ts) == EXCEL_COLUMNS \o SelectSeq(SORTED_TAGS, LAMBDA k : k \in AllExtras(ts))

\* ws.append([row.get(col, "") for col in header])
SheetRow(hdr, row) == [i \in DOMAIN hdr |-> Get(row, hdr[i], EmptyStr)]

\* sheet_data[sheet]: the cell rows written for one tree
SheetData(hdr, t) == [i \in DOMAIN TreeRows(t) |-> SheetRow(hdr, TreeRows(t)[i])]

(***************************************************************************)
(* The edits a user makes to the exported workbook before the import.      *)
(* A scenario fixes the documents, the sheet order, the cell edits that    *)
(* may be applied to an exported row and the rows that may be appended.    *)
(***************************************************************************)
ColumnIndex(hdr, col) == CHOOSE i \in DOMAIN hdr : hdr[i] = col

\* an edit of one cell: a new value, or a blank typed after the old value
SetTo(col, val) == [col |-> col, val |-> val, pad |-> FALSE]
Pad(col) == [col |-> col, val |-> EmptyStr, pad |-> TRUE]

EditCell(hdr, cells, e) ==
    IF e.col \notin Range(hdr) THEN cells
    ELSE [cells EXCEPT ![ColumnIndex(hdr, e.col)] =
             IF e.pad THEN OrEmpty(@) \o Blank ELSE e.val]

\* a row typed from scratch: the given cells, every other cell empty
NewRow(hdr, given) == [i \in DOMAIN hdr |-> Get(given, hdr[i], NoText)]

Cells(tagtype, name, fullpath, more) ==
    << [k |-> "TagType", v |-> <<tagtype>>], [k |-> "Name", v |-> name],
       [k |-> "FullPath", v |-> fullpath] >> \o more

ScenarioNames ==
    { "flow", "blank", "types", "defer", "tagtype", "paths", "create", "expr",
      "sheets", "repeat", "limits", "twins",
      "untyped" }

\* the documents of a scenario: file name and content
ScenarioDocs(n) ==
    CASE n \in {"flow", "blank", "types", "tagtype", "paths", "create", "repeat",
                "limits"} ->
            << [path |-> "TEST.pxml", doc |-> TestDoc] >>
      [] n = "defer" -> << [path |-> "UP.uxml", doc |-> DeferDoc] >>
      [] n = "expr" -> << [path |-> "EXPR.pxml", doc |-> ExprDoc] >>
      [] n = "twins" -> << [path |-> "TW.pxml", doc |-> TwinDoc] >>
      [] n = "untyped" -> << [path |-> "EXPR.pxml", doc |-> ExprDoc],
                             [path |-> "UT.pxml", doc |-> UntypedDoc] >>
      [] n = "sheets" -> << [path |-> "EXPR.pxml", doc |-> ExprDoc],
                            [path |-> "UP.uxml", doc |-> DeferDoc] >>

\* wb.sheetnames
ScenarioSheets(n) ==
    IF n = "sheets" THEN << "UP.uxml", "Notes", "EXPR.pxml" >>
    ELSE IF n = "untyped" THEN << "EXPR.pxml", "UT.pxml" >>
    ELSE << ScenarioDocs(n)[1].path >>

ScenarioEdits(n) ==
    CASE n = "flow" -> { SetTo("Real", <<"42">>) }
      [] n = "blank" -> { SetTo("High", NoText), SetTo("Low", Blank) }
      [] n = "types" -> { SetTo("Real", <<"42">>), SetTo("String", <<"s">>) }
      [] n = "defer" ->
            { SetTo("Defer", <<"P2">>), SetTo("Defer", NoText), SetTo("Value", <<"8">>) }
      [] n = "tagtype" -> { SetTo("TagType", <<"Header">>), SetTo("Low", <<"3">>) }
      [] n = "paths" ->
            { Pad("FullPath"),
              SetTo("FullPath", ParameterPath(<<"TEST">>, <<"Param3">>) \o Blank) }
      [] n = "create" -> {}
      [] n = "expr" -> { SetTo("ParamExpression", <<"x">>), SetTo("Real", <<"1">>) }
      [] n = "sheets" -> { SetTo("TagType", NoText), SetTo("Defer", <<"P1">>) }
      [] n = "repeat" -> { SetTo("Real", <<"42">>) }
      [] n = "twins" -> {}
      [] n = "untyped" -> {}
      [] n = "limits" ->
            { SetTo("FormulaValueLimit_HighValue", <<"5">>),
              SetTo("FormulaValueLimit_Verification", <<"High_Low">>) }

ScenarioNewRows(n) ==
    CASE n = "flow" ->
            { Cells("Parameter", <<"Param3">>, ParameterPath(<<"TEST">>, <<"Param3">>),
                    << [k |-> "Real", v |-> <<"0">>] >>) }
      [] n = "defer" ->
            { Cells("Parameter", <<"P2">>, ParameterPath(<<"UP">>, <<"P2">>),
                    << [k |-> "Integer", v |-> <<"1">>] >>) }
      [] n = "paths" ->
            { Cells("Parameter", <<"Param3">>,
                    ParameterPath(<<"TEST">>, <<"Param3">>) \o Blank,
                    << [k |-> "Real", v |-> <<"0">>] >>) }
      [] n = "create" ->
            { Cells("Parameter", <<"Param3">>, ParameterPath(<<"TEST">>, <<"Param3">>),
                    <<>>),
              Cells("Parameter", <<"Param4">>, ParameterPath(<<"TEST">>, <<"Param4">>),
                    << [k |-> "Integer", v |-> <<"4">>] >>),
              Cells("Parameter", <<"Param5">>, ParameterPath(<<"TEST">>, <<"Param5">>),
                    << [k |-> "String", v |-> <<"s">>] >>),
              Cells("FormulaValue", <<"FV2">>,
                    FormulaValuePath(<<"TEST">>, <<"Step1">>, <<"FV2">>),
                    << [k |-> "Integer", v |-> <<"1">>] >>),
              Cells("FormulaValue", <<"FV2">>,
                    FormulaValuePath(<<"TEST">>, <<"Step9">>, <<"FV2">>),
                    << [k |-> "Integer", v |-> <<"1">>] >>),
              Cells("FormulaValue", <<"FV3">>,
                    FormulaValuePath(<<"TEST">>, <<"Step1">>, <<"FV3">>), <<>>) }
      [] n = "repeat" ->
            { Cells("Parameter", <<"Param1">>, ParameterPath(<<"TEST">>, <<"Param1">>),
                    << [k |-> "Real", v |-> <<"7">>] >>),
              Cells("Parameter", <<"Param3">>, ParameterPath(<<"TEST">>, <<"Param3">>),
                    << [k |-> "Real", v |-> <<"0">>] >>),
              Cells("Parameter", <<"Param3">>, ParameterPath(<<"TEST">>, <<"Param3">>),
                    << [k |-> "Real", v |-> <<"1">>] >>) }
      [] n = "sheets" ->
            { Cells("FormulaValue", <<"B">>,
                    FormulaValuePath(<<"UP">>, <<"S9">>, <<"B">>),
                    << [k |-> "String", v |-> <<"b">>] >>) }
      [] n = "twins" ->
            { Cells("FormulaValue", <<"C">>,
                    FormulaValuePath(<<"TW">>, <<"S2">>, <<"C">>),
                    << [k |-> "Integer", v |-> <<"3">>] >>) }
      [] n = "limits" ->
            { Cells("FormulaValue", <<"FV2">>,
                    FormulaValuePath(<<"TEST">>, <<"Step1">>, <<"FV2">>),
                    << [k |-> "Integer", v |-> <<"1">>],
                       [k |-> "FormulaValueLimit_HighValue", v |-> <<"5">>] >>) }
      [] n = "expr" ->
            { Cells("Parameter", <<"PX">>, ParameterPath(<<"EXPR">>, <<"PX">>),
                    << [k |-> "Real", v |-> <<"0">>] >>) }
      [] OTHER -> {}

\* an exported row as the user may leave it: untouched, or with one or two of
\* the scenario's cell edits (of different columns) applied
RowVariants(hdr, cells, edits) ==
    {cells}
    \cup { EditCell(hdr, cells, e) : e \in edits }
    \cup { EditCell(hdr, EditCell(hdr, cells, e[1]), e[2]) :
             e \in {x \in edits \X edits : x[1].col # x[2].col} }

(***************************************************************************)
(* ExcelImporter.import_changes: the work done for one row                 *)
(***************************************************************************)
\* dict(zip(header, [v if v is not None else "" for v in row]))
ReadRow(hdr, cells) == [i \in DOMAIN hdr |-> [k |-> hdr[i], v |-> OrEmpty(cells[i])]]

IMPORT_TYPES == {"Real", "Integer", "String", "EnumerationSet", "Defer"}

\* the threshold of `if cnt > 2`
IMPORT_TYPE_LIMIT == 2

\* cnt = sum(bool(safe_strip(row_dict.get(t))) for t in types)
ImportTypeCount(row_dict) ==
    Cardinality({ty \in IMPORT_TYPES : safe_strip(Get(row_dict, ty, NoText)) # EmptyStr})

FirstIndex(s, tok) ==
    IF tok \in Range(s)
    THEN CHOOSE i \in DOMAIN s : s[i] = tok /\ \A j \in 1..(i - 1) : s[j] # tok
    ELSE 0

\* fp.split("/Steps/Step[", 1)[1].split("]")[0], defined when the separator occurs
SplitStep(fp) ==
    LET rest == SubSeq(fp, FirstIndex(fp, "/Steps/Step[") + 1, Len(fp))
    IN  IF FirstIndex(rest, "]") = 0 THEN rest
        ELSE SubSeq(rest, 1, FirstIndex(rest, "]") - 1)

NewCounts == [Created |-> 0, Updated |-> 0, Deleted |-> 0]
NewStepCounts == [Created |-> 0, Updated |-> 0, Deleted |-> 0, Deferrals |-> 0]
NewSheetStats == [Parameters |-> NewCounts, FormulaValues |-> <<>>]

\* sheet_stats["FormulaValues"][step][field] += n, on a defaultdict
BumpStep(ss, step, field, n) ==
    LET old == Get(ss.FormulaValues, step, NewStepCounts)
    IN  [ss EXCEPT !.FormulaValues = Put(@, step, [old EXCEPT ![field] = @ + n])]

\* errors.append(...), then continue
\* a faulty variant: the row-level error is raised at once
RowErrorRaise(t, c, where, kind) ==
    [t |-> t, c |-> c, exc |-> "ValidationError"]

RowError(t, c, where, kind) ==
    [t |-> t, c |-> [c EXCEPT !.errors = Append(@, [at |-> where, kind |-> kind])],
     exc |-> NoExc]

\* an exception that no handler of import_changes catches
RowRaise(t, c, exc) == [t |-> t, c |-> c, exc |-> exc]

\* lines 121-131: the row's node exists
ParameterFound(t, c, node, row_dict, fp) ==
    With(ParameterUpdate(t.E, node, row_dict),
         LAMBDA U :
           IF U.exc # NoExc THEN RowRaise([t EXCEPT !.E = U.E], c, U.exc)
           ELSE [t |-> [t EXCEPT !.E = U.E],
                 c |-> IF U.changed
                       THEN [c EXCEPT !.stats.updated = @ + 1,
                                      !.sheet_stats.Parameters.Updated = @ + 1,
                                      !.seen_params = @ \cup {fp}]
                       ELSE [c EXCEPT !.seen_params = @ \cup {fp}],
                 exc |-> NoExc])

\* a faulty variant of lines 132-138: the creation is counted in the totals
\* and not in the counts of the sheet
ParameterMissingUncounted(t, c, row_dict, fp) ==
    With(create_parameter(t, row_dict),
         LAMBDA C :
           IF C.exc # NoExc THEN RowRaise(C.t, c, C.exc)
           ELSE [t |-> C.t,
                 c |-> [c EXCEPT !.stats.created = @ + 1,
                                 !.seen_params = @ \cup {fp}],
                 exc |-> NoExc])

\* lines 132-138: the row's node does not exist
ParameterMissing(t, c, row_dict, fp) ==
    With(create_parameter(t, row_dict),
         LAMBDA C :
           IF C.exc # NoExc THEN RowRaise(C.t, c, C.exc)
           ELSE [t |-> C.t,
                 c |-> [c EXCEPT !.stats.created = @ + 1,
                                 !.sheet_stats.Parameters.Created = @ + 1,
                                 !.seen_params = @ \cup {fp}],
                 exc |-> NoExc])

ParameterRow(t, c0, row_dict, fp) ==
    LET c == [c0 EXCEPT !.excel_param_names = @ \cup {strip(Get(row_dict, "Name", EmptyStr))}]
        i == FindNode(t.parameters, fp)
    IN  IF i # 0 THEN ParameterFound(t, c, t.parameters[i], row_dict, fp)
        ELSE ParameterMissing(t, c, row_dict, fp)

\* lines 158-170
FormulaValueFound(t, c, node, row_dict, fp, step, d) ==
    With(FormulaValueUpdate(t.E, node, row_dict),
         LAMBDA U :
           IF U.exc # NoExc THEN RowRaise([t EXCEPT !.E = U.E], c, U.exc)
           ELSE [t |-> [t EXCEPT !.E = U.E],
                 c |-> IF U.changed
                       THEN [c EXCEPT !.stats.updated = @ + 1,
                                      !.sheet_stats =
                                          BumpStep(BumpStep(@, step, "Updated", 1),
                                                   step, "Deferrals", d),
                                      !.seen_fvs = @ \cup {fp}]
                       ELSE [c EXCEPT !.seen_fvs = @ \cup {fp}],
                 exc |-> NoExc])

\* lines 171-179
FormulaValueMissing(t, c, row_dict, fp, step, d) ==
    With(create_formulavalue(t, row_dict),
         LAMBDA C :
           IF C.exc # NoExc THEN RowRaise(C.t, c, C.exc)
           ELSE [t |-> C.t,
                 c |-> [c EXCEPT !.stats.created = @ + 1,
                                 !.sheet_stats =
                                     BumpStep(BumpStep(@, step, "Created", 1),
                                              step, "Deferrals", d),
                                 !.seen_fvs = @ \cup {fp}],
                 exc |-> NoExc])

FormulaValueRow(t, c, where, row_dict, fp) ==
    LET i == FindNode(t.formula_values, fp)
        defer == strip(Get(row_dict, "Defer", EmptyStr))
        d == IF defer # EmptyStr THEN 1 ELSE 0
    IN  IF FirstIndex(fp, "/Steps/Step[") = 0 THEN RowRaise(t, c, "IndexError")
        ELSE IF defer # EmptyStr /\ defer \notin c.excel_param_names
        THEN RowError(t, c, where, "defer")
        ELSE IF i # 0
        THEN FormulaValueFound(t, c, t.formula_values[i], row_dict, fp, SplitStep(fp), d)
        ELSE FormulaValueMissing(t, c, row_dict, fp, SplitStep(fp), d)

\* the body of the row loop for one row
ProcessRow(t, c, where, row_dict) ==
    LET fp == strip(Get(row_dict, "FullPath", EmptyStr))
        tagtype == strip(Get(row_dict, "TagType", EmptyStr))
    IN  IF ImportTypeCount(row_dict) > IMPORT_TYPE_LIMIT
        THEN RowError(t, c, where, "type")
        ELSE IF tagtype = <<"Parameter">> THEN ParameterRow(t, c, row_dict, fp)
        ELSE IF tagtype = <<"FormulaValue">>
        THEN FormulaValueRow(t, c, where, row_dict, fp)
        ELSE RowError(t, c, where, "tagtype")

(***************************************************************************)
(* ExcelImporter.import_changes: the deletes at the end of a sheet         *)
(***************************************************************************)
\* node.element.getparent().remove(node.element)
Detach(E, el) == RemoveChild(E, GetParent(E, el), el)

RECURSIVE DeleteParameters(_, _, _)
DeleteParameters(t, c, nodes) ==
    IF nodes = <<>> THEN [t |-> t, c |-> c]
    ELSE IF Head(nodes).fullpath \notin c.seen_params
    THEN DeleteParameters(
            [t EXCEPT !.E = Detach(@, Head(nodes).element),
                      !.parameters = SelectSeq(@, LAMBDA n : n.element # Head(nodes).element)],
            [c EXCEPT !.stats.deleted = @ + 1,
                      !.sheet_stats.Parameters.Deleted = @ + 1],
            Tail(nodes))
    ELSE DeleteParameters(t, c, Tail(nodes))

RECURSIVE DeleteFormulaValues(_, _, _)
DeleteFormulaValues(t, c, nodes) ==
    IF nodes = <<>> THEN [t |-> t, c |-> c]
    ELSE IF Head(nodes).fullpath \notin c.seen_fvs
    THEN DeleteFormulaValues(
            [t EXCEPT !.E = Detach(@, Head(nodes).element),
                      !.formula_values = SelectSeq(@, LAMBDA n : n.element # Head(nodes).element)],
            [c EXCEPT !.stats.deleted = @ + 1,
                      !.sheet_stats = BumpStep(@, SplitStep(Head(nodes).fullpath), "Deleted", 1)],
            Tail(nodes))
    ELSE DeleteFormulaValues(t, c, Tail(nodes))

Deletes(t, c) ==
    With(DeleteParameters(t, c, t.parameters),
         LAMBDA P : DeleteFormulaValues(P.t, P.c, P.t.formula_values))

RECURSIVE SumField(_, _)
SumField(d, field) ==
    IF d = <<>> THEN 0 ELSE Head(d).v[field] + SumField(Tail(d), field)

\* sheet_created, sheet_updated, sheet_deleted
SheetTotal(ss, field) == ss.Parameters[field] + SumField(ss.FormulaValues, field)

(***************************************************************************)
(* State.                                                                  *)
(***************************************************************************)
VARIABLES
    scn,                \* the scenario: documents, sheet order, possible edits
    pc,                 \* "new", "parsed", "exported", "cli_parsed", "sheets", "rows",
                        \* "returned", "raised", "crashed"
    trees,              \* the RecipeTree list handed from the parser on
    header,             \* the header row of the workbook
    sheet_data,         \* per tree, the rows the exporter wrote to its sheet
    before,             \* the trees as import_changes received them
    sheet,              \* index into wb.sheetnames of the sheet being read
    cursor,             \* the next exported row of the sheet not yet passed
    appended,           \* how many appended rows of the sheet were read
    rows,               \* per sheet, the cell rows read so far
    errors, stats, excel_param_names, seen_params, seen_fvs, sheet_stats,
    events,             \* what progress_cb received
    exc                 \* the exception import_changes ended with

\* the excel2xml command (cli/cli.py)
VARIABLES
    calls,              \* the collaborator methods the command has invoked
    written,            \* the files XMLWriter.write has written: name and tree
    exit_code           \* the exit code of the command, Running before it ends

\* XMLParser.parse on a directory of recipe files (core/parser.py)
VARIABLES
    ppc,                \* "idle", "loading", "done"
    fs,                 \* the directory: the files and their StepRecipeID texts
    stack,              \* the active _load calls, innermost last
    loaded,             \* the keys of `loaded`, in insertion order
    constructed,        \* every path a RecipeTree was constructed for, in order
    discovered,         \* discovered_paths
    missing             \* missing_children

\* a CLIRuntimeUI and its console (cli/ui.py)
VARIABLES
    ui,                 \* enable_progress, progress, task_ids, announced; and
                        \* `repeated`, the keys ensure_task was called for again
    console,            \* the lines printed, oldest first
    ncalls              \* how many methods of the UI have been called

cliVars == << calls, written, exit_code >>

parserVars == << ppc, fs, stack, loaded, constructed, discovered, missing >>

uiVars == << ui, console, ncalls >>

mainVars ==
    << scn, pc, trees, header, sheet_data, before, sheet, cursor, appended, rows,
       errors, stats, excel_param_names, seen_params, seen_fvs, sheet_stats,
       events, exc >>

vars == << mainVars, cliVars, parserVars, uiVars >>

\* the command has not exited
Running == -1

\* no parse of a directory is in progress
ParserIdle ==
    /\ ppc = "idle"
    /\ fs = <<>>
    /\ stack = <<>>
    /\ loaded = <<>>
    /\ constructed = <<>>
    /\ discovered = {}
    /\ missing = <<>>

\* no CLIRuntimeUI is in use
UiIdle ==
    /\ ui = [enable_progress |-> TRUE, progress |-> "None", task_ids |-> {},
             announced |-> {}, repeated |-> {}]
    /\ console = <<>>
    /\ ncalls = 0

otherVars == << parserVars, uiVars >>

importVars ==
    << before, sheet, cursor, appended, rows, errors, stats, excel_param_names,
       seen_params, seen_fvs, sheet_stats, events, exc >>

sheetnames == ScenarioSheets(scn)

\* tree_map = {os.path.basename(t.filepath): t for t in trees}: an index, 0 if absent
TreeOf(name) ==
    IF \E i \in DOMAIN trees : trees[i].filepath = name
    THEN CHOOSE i \in DOMAIN trees :
            /\ trees[i].filepath = name
            /\ \A j \in (i + 1)..Len(trees) : trees[j].filepath # name
    ELSE 0

Init ==
    /\ scn \in ScenarioNames
    /\ pc = "new"
    /\ trees = [i \in DOMAIN ScenarioDocs(scn) |->
                   RecipeTree(ScenarioDocs(scn)[i].path, ScenarioDocs(scn)[i].doc)]
    /\ header = <<>>
    /\ sheet_data = <<>>
    /\ before = <<>>
    /\ sheet = 0
    /\ cursor = 0
    /\ appended = 0
    /\ rows = <<>>
    /\ errors = <<>>
    /\ stats = [created |-> 0, updated |-> 0, deleted |-> 0]
    /\ excel_param_names = {}
    /\ seen_params = {}
    /\ seen_fvs = {}
    /\ sheet_stats = NewSheetStats
    /\ events = <<>>
    /\ exc = NoExc
    /\ calls = <<>>
    /\ written = <<>>
    /\ exit_code = Running
    /\ ParserIdle
    /\ UiIdle

(***************************************************************************)
(* XMLParser.parse: every tree is constructed and extract_nodes is called  *)
(***************************************************************************)
Parse ==
    /\ pc = "new"
    /\ trees' = [i \in DOMAIN trees |-> extract_nodes(trees[i])]
    /\ pc' = "parsed"
    /\ UNCHANGED << scn, header, sheet_data >>
    /\ UNCHANGED << importVars, cliVars, otherVars >>

(***************************************************************************)
(* ExcelExporter.export                                                    *)
(***************************************************************************)
Export ==
    /\ pc = "parsed"
    /\ header' = ExportHeader(trees)
    /\ sheet_data' = [i \in DOMAIN trees |-> SheetData(ExportHeader(trees), trees[i])]
    /\ pc' = "exported"
    /\ UNCHANGED << scn, trees >>
    /\ UNCHANGED << importVars, cliVars, otherVars >>

(***************************************************************************)
(* excel2xml_command, line 214: the command parses the recipe files again  *)
(***************************************************************************)
Excel2XmlParse ==
    /\ pc = "exported"
    /\ trees' = [i \in DOMAIN ScenarioDocs(scn) |->
                    extract_nodes(RecipeTree(ScenarioDocs(scn)[i].path,
                                             ScenarioDocs(scn)[i].doc))]
    /\ calls' = Append(calls, "parse")
    /\ pc' = "cli_parsed"
    /\ UNCHANGED << scn, header, sheet_data, written, exit_code >>
    /\ UNCHANGED << importVars, otherVars >>

(***************************************************************************)
(* ExcelImporter.import_changes                                            *)
(***************************************************************************)
\* lines 45-70: the workbook is loaded, errors and stats start empty
ImportStart ==
    /\ pc = "cli_parsed"
    /\ calls' = Append(calls, "import_changes")
    /\ pc' = "sheets"
    /\ before' = trees
    /\ sheet' = 1
    /\ rows' = [i \in DOMAIN sheetnames |-> <<>>]
    /\ errors' = <<>>
    /\ stats' = [created |-> 0, updated |-> 0, deleted |-> 0]
    /\ events' = << [event |-> "start", total |-> Len(sheetnames)] >>
    /\ exc' = NoExc
    /\ UNCHANGED << scn, trees, header, sheet_data, cursor, appended,
                    excel_param_names, seen_params, seen_fvs, sheet_stats >>
    /\ UNCHANGED << written, exit_code, otherVars >>

\* lines 73-76: a sheet with no matching tree is skipped
SheetSkip ==
    /\ pc = "sheets"
    /\ sheet <= Len(sheetnames)
    /\ TreeOf(sheetnames[sheet]) = 0
    /\ events' = Append(events, [event |-> "sheet_skipped", sheet |-> sheetnames[sheet]])
    /\ sheet' = sheet + 1
    /\ UNCHANGED << scn, pc, trees, header, sheet_data, before, cursor, appended,
                    rows, errors, stats, excel_param_names, seen_params, seen_fvs,
                    sheet_stats, exc >>
    /\ UNCHANGED << cliVars, otherVars >>

\* a faulty variant of lines 78-96: the Parameter names of the sheets before
\* are kept
SheetStartKeepNames ==
    /\ pc = "sheets"
    /\ sheet <= Len(sheetnames)
    /\ TreeOf(sheetnames[sheet]) # 0
    /\ pc' = "rows"
    /\ events' = Append(events, [event |-> "sheet_start", sheet |-> sheetnames[sheet]])
    /\ sheet_stats' = NewSheetStats
    /\ seen_params' = {}
    /\ seen_fvs' = {}
    /\ cursor' = 1
    /\ appended' = 0
    /\ UNCHANGED << scn, trees, header, sheet_data, before, sheet, rows, errors,
                    stats, exc, excel_param_names >>
    /\ UNCHANGED << cliVars, otherVars >>

\* lines 78-96: the per-sheet state is initialised
SheetStart ==
    /\ pc = "sheets"
    /\ sheet <= Len(sheetnames)
    /\ TreeOf(sheetnames[sheet]) # 0
    /\ pc' = "rows"
    /\ events' = Append(events, [event |-> "sheet_start", sheet |-> sheetnames[sheet]])
    /\ sheet_stats' = NewSheetStats
    /\ excel_param_names' = {}
    /\ seen_params' = {}
    /\ seen_fvs' = {}
    /\ cursor' = 1
    /\ appended' = 0
    /\ UNCHANGED << scn, trees, header, sheet_data, before, sheet, rows, errors,
                    stats, exc >>
    /\ UNCHANGED << cliVars, otherVars >>

Context ==
    [errors |-> errors, stats |-> stats, excel_param_names |-> excel_param_names,
     seen_params |-> seen_params, seen_fvs |-> seen_fvs, sheet_stats |-> sheet_stats]

\* lines 98-184: one iteration of the row loop, on the row `cells`
ReadAndProcess(cells) ==
    \E R \in {ProcessRow(trees[TreeOf(sheetnames[sheet])], Context,
                         [sheet |-> sheetnames[sheet], row |-> Len(rows[sheet]) + 2],
                         ReadRow(header, cells))} :
        /\ rows' = [rows EXCEPT ![sheet] = Append(@, cells)]
        /\ trees' = [trees EXCEPT ![TreeOf(sheetnames[sheet])] = R.t]
        /\ errors' = R.c.errors
        /\ stats' = R.c.stats
        /\ excel_param_names' = R.c.excel_param_names
        /\ seen_params' = R.c.seen_params
        /\ seen_fvs' = R.c.seen_fvs
        /\ sheet_stats' = R.c.sheet_stats
        /\ exc' = R.exc
        /\ pc' = IF R.exc = NoExc THEN "rows" ELSE "crashed"
        /\ UNCHANGED << scn, header, sheet_data, before, sheet, events >>
        /\ UNCHANGED << cliVars, otherVars >>

\* the next row is one of the exported rows, as exported or edited; the
\* exported rows before it were deleted from the sheet
ImportExportedRow ==
    /\ pc = "rows"
    /\ appended = 0
    /\ \E k \in cursor..Len(sheet_data[TreeOf(sheetnames[sheet])]) :
         \E cells \in RowVariants(header, sheet_data[TreeOf(sheetnames[sheet])][k],
                                  ScenarioEdits(scn)) :
            /\ ReadAndProcess(cells)
            /\ cursor' = k + 1
            /\ UNCHANGED appended

\* the next row is one the user appended below the exported rows
ImportAppendedRow ==
    /\ pc = "rows"
    /\ appended < MaxNewRows
    /\ \E given \in ScenarioNewRows(scn) :
            /\ ReadAndProcess(NewRow(header, given))
            /\ appended' = appended + 1
            /\ UNCHANGED cursor

\* lines 186-257: the rows of the sheet are exhausted
SheetDone ==
    /\ pc = "rows"
    /\ \E D \in {Deletes(trees[TreeOf(sheetnames[sheet])], Context)} :
        /\ trees' = [trees EXCEPT ![TreeOf(sheetnames[sheet])] = D.t]
        /\ stats' = D.c.stats
        /\ sheet_stats' = D.c.sheet_stats
        /\ events' = Append(events,
                [event |-> "sheet_done", sheet |-> sheetnames[sheet],
                 created |-> SheetTotal(D.c.sheet_stats, "Created"),
                 updated |-> SheetTotal(D.c.sheet_stats, "Updated"),
                 deleted |-> SheetTotal(D.c.sheet_stats, "Deleted")])
    /\ sheet' = sheet + 1
    /\ pc' = "sheets"
    /\ UNCHANGED << scn, header, sheet_data, before, cursor, appended, rows,
                    errors, excel_param_names, seen_params, seen_fvs, exc >>
    /\ UNCHANGED << cliVars, otherVars >>

\* lines 259-279: one aggregate ValidationError, or the stats
ImportFinish ==
    /\ pc = "sheets"
    /\ sheet > Len(sheetnames)
    /\ IF errors # <<>>
       THEN /\ pc' = "raised"
            /\ exc' = "ValidationError"
            /\ UNCHANGED events
       ELSE /\ pc' = "returned"
            /\ events' = Append(events, [event |-> "finished", stats |-> stats])
            /\ UNCHANGED exc
    /\ UNCHANGED << scn, trees, header, sheet_data, before, sheet, cursor, appended,
                    rows, errors, stats, excel_param_names, seen_params, seen_fvs,
                    sheet_stats >>
    /\ UNCHANGED << cliVars, otherVars >>

(***************************************************************************)
(* XMLWriter.write, called by excel2xml_command at line 220                *)
(***************************************************************************)
\* lines 54-55: reorder_children on every node, parameters first; the first
\* exception ends the loop
RECURSIVE ReorderAll(_, _, _)
ReorderAll(E, parameters, formula_values) ==
    IF parameters # <<>>
    THEN With(ParameterReorder(E, Head(parameters)),
              LAMBDA R : IF R.exc # NoExc THEN R
                         ELSE ReorderAll(R.E, Tail(parameters), formula_values))
    ELSE IF formula_values # <<>>
    THEN With(FormulaValueReorder(E, Head(formula_values)),
              LAMBDA R : IF R.exc # NoExc THEN R
                         ELSE ReorderAll(R.E, <<>>, Tail(formula_values)))
    ELSE [E |-> E, exc |-> NoExc]

\* lines 78-206 for one sheet taken alone: the rows of the sheet applied in
\* order to the tree, from empty per-sheet state, then the deletes
RECURSIVE ReconcileRows(_, _, _, _, _, _)
ReconcileRows(t, c, name, hdr, sheet_rows, j) ==
    IF j > Len(sheet_rows) THEN [t |-> t, c |-> c, exc |-> NoExc]
    ELSE With(ProcessRow(t, c, [sheet |-> name, row |-> j + 1],
                         ReadRow(hdr, sheet_rows[j])),
              LAMBDA R : IF R.exc # NoExc THEN R
                         ELSE ReconcileRows(R.t, R.c, name, hdr, sheet_rows, j + 1))

\* lines 59-60 and 78-96: no errors, zero stats, empty per-sheet state
NewContext ==
    [errors |-> <<>>, stats |-> [created |-> 0, updated |-> 0, deleted |-> 0],
     excel_param_names |-> {}, seen_params |-> {}, seen_fvs |-> {},
     sheet_stats |-> NewSheetStats]

Reconcile(t, name, hdr, sheet_rows) ==
    With(ReconcileRows(t, NewContext, name, hdr, sheet_rows, 1),
         LAMBDA R : IF R.exc # NoExc THEN R
                    ELSE With(Deletes(R.t, R.c),
                              LAMBDA D : [t |-> D.t, c |-> D.c, exc |-> NoExc]))

\* a faulty variant of the command: the writer also starts after the import
\* raised its aggregate ValidationError
WriteStartAlways ==
    /\ pc \in {"returned", "raised"}
    /\ calls' = Append(calls, "write")
    /\ written' = <<>>
    /\ pc' = "writing"
    /\ UNCHANGED << exit_code, otherVars >>
    /\ UNCHANGED << scn, trees, header, sheet_data, importVars >>

\* lines 42-51: the import returned its stats, the writer starts
WriteStart ==
    /\ pc = "returned"
    /\ calls' = Append(calls, "write")
    /\ written' = <<>>
    /\ pc' = "writing"
    /\ UNCHANGED << exit_code, otherVars >>
    /\ UNCHANGED << scn, trees, header, sheet_data, importVars >>

\* lines 53-67: one iteration of the loop over the trees
WriteFile ==
    /\ pc = "writing"
    /\ Len(written) < Len(trees)
    /\ \E R \in {ReorderAll(trees[Len(written) + 1].E,
                             trees[Len(written) + 1].parameters,
                             trees[Len(written) + 1].formula_values)} :
        /\ trees' = [trees EXCEPT ![Len(written) + 1].E = R.E]
        /\ IF R.exc = NoExc
           THEN /\ written' = Append(written,
                        [filepath |-> trees[Len(written) + 1].filepath, E |-> R.E])
                /\ UNCHANGED << pc, exc >>
           ELSE /\ pc' = "write_failed"
                /\ exc' = R.exc
                /\ UNCHANGED written
    /\ UNCHANGED << calls, exit_code, otherVars >>
    /\ UNCHANGED << scn, header, sheet_data, before, sheet, cursor, appended, rows,
                    errors, stats, excel_param_names, seen_params, seen_fvs,
                    sheet_stats, events >>

\* lines 69-70: every tree is written
WriteFinish ==
    /\ pc = "writing"
    /\ Len(written) = Len(trees)
    /\ pc' = "written"
    /\ UNCHANGED << cliVars, otherVars >>
    /\ UNCHANGED << scn, trees, header, sheet_data, importVars >>

\* excel2xml_command, lines 224-234: the command ends, with code 1 from either
\* except clause
Excel2XmlExit ==
    /\ exit_code = Running
    /\ pc \in {"written", "raised", "crashed", "write_failed"}
    /\ exit_code' = IF pc = "written" THEN 0 ELSE 1
    /\ UNCHANGED << calls, written, otherVars >>
    /\ UNCHANGED mainVars

Next ==
    \/ Parse
    \/ Export
    \/ Excel2XmlParse
    \/ ImportStart
    \/ SheetSkip
    \/ SheetStart
    \/ ImportExportedRow
    \/ ImportAppendedRow
    \/ SheetDone
    \/ ImportFinish
    \/ WriteStart
    \/ WriteFile
    \/ WriteFinish
    \/ Excel2XmlExit

Spec == Init /\ [][Next]_vars

\* no command is running
MainIdle ==
    /\ scn = "flow"
    /\ pc = "idle"
    /\ trees = <<>>
    /\ header = <<>>
    /\ sheet_data = <<>>
    /\ before = <<>>
    /\ sheet = 0
    /\ cursor = 0
    /\ appended = 0
    /\ rows = <<>>
    /\ errors = <<>>
    /\ stats = [created |-> 0, updated |-> 0, deleted |-> 0]
    /\ excel_param_names = {}
    /\ seen_params = {}
    /\ seen_fvs = {}
    /\ sheet_stats = NewSheetStats
    /\ events = <<>>
    /\ exc = NoExc
    /\ calls = <<>>
    /\ written = <<>>
    /\ exit_code = Running

(***************************************************************************)
(* XMLParser.parse on a directory: which files are loaded, and when        *)
(***************************************************************************)
\* a path of the directory: the file name without its extension, and the
\* extension as written
FilePath(stem, ext) == [stem |-> stem, ext |-> ext]

\* os.path.splitext(abs_path)[1].upper()
Upper(ext) ==
    CASE ext \in {".pxml", ".PXML"} -> ".PXML"
      [] ext \in {".uxml", ".UXML"} -> ".UXML"
      [] ext \in {".oxml", ".OXML"} -> ".OXML"
      [] OTHER -> ext

\* {".PXML": ".UXML", ".UXML": ".OXML"}.get(ext): "" stands for None
child_ext(ext) ==
    CASE Upper(ext) = ".PXML" -> ".UXML"
      [] Upper(ext) = ".UXML" -> ".OXML"
      [] OTHER -> ""

\* directories: the files that exist, each with the texts of its
\* StepRecipeID elements in document order
Diamond ==
    (FilePath(<<"P">>, ".pxml") :>
        << <<"U1">>, <<" ", "U1", " ">>, <<"U2">>, Blank, <<"U1">> >>)
    @@ (FilePath(<<"U1">>, ".UXML") :> << <<"O1">>, <<"O1">>, <<"OX">> >>)
    @@ (FilePath(<<"U2">>, ".UXML") :> << <<"O1">>, <<"O2">>, <<"OX">>, NoText >>)
    @@ (FilePath(<<"O1">>, ".OXML") :> << <<"O1">>, <<"P">> >>)
    @@ (FilePath(<<"O2">>, ".OXML") :> <<>>)

SameStem ==
    (FilePath(<<"R">>, ".PXML") :> << <<"R">>, <<"R">> >>)
    @@ (FilePath(<<"R">>, ".UXML") :> << <<"R">>, NoText, <<"R">> >>)
    @@ (FilePath(<<"R">>, ".OXML") :> << <<"R">> >>)

UnitParent ==
    (FilePath(<<"U">>, ".uxml") :> << <<"A">>, <<"B">>, <<"A">>, <<"U">> >>)
    @@ (FilePath(<<"A">>, ".OXML") :> <<>>)
    @@ (FilePath(<<"B">>, ".oxml") :> <<>>)
    @@ (FilePath(<<"U">>, ".xml") :> << <<"A">> >>)

Missing ==
    (FilePath(<<"M">>, ".pxml") :> << <<"A">>, <<"A">>, <<"B">>, <<"A", " ">> >>)
    @@ (FilePath(<<"A">>, ".uxml") :> << <<"M">> >>)

Directories == { Diamond, SameStem, UnitParent, Missing }

\* a faulty variant of lines 43-50: a file that is already loaded may be
\* loaded again
LoadFileAgain ==
    /\ ppc = "loading" /\ stack # <<>>
    /\ stack[Len(stack)].at = "enter"
    /\ discovered' = discovered \cup {stack[Len(stack)].path}
    /\ constructed' = Append(constructed, stack[Len(stack)].path)
    /\ loaded' = IF stack[Len(stack)].path \in Range(loaded) THEN loaded
                 ELSE Append(loaded, stack[Len(stack)].path)
    /\ stack' = [stack EXCEPT ![Len(stack)] =
                    [path |-> @.path, at |-> "loop",
                     todo |-> IF child_ext(@.path.ext) = "" THEN <<>>
                              ELSE fs.files[@.path]]]
    /\ UNCHANGED << ppc, fs, missing >>
    /\ UNCHANGED << mainVars, cliVars, uiVars >>

\* the parse of a directory starts: line 104 calls _load(parent_path)
ParseInit ==
    /\ MainIdle
    /\ UiIdle
    /\ ppc = "loading"
    /\ \E d \in Directories : \E parent \in DOMAIN d :
        /\ fs = [files |-> d, parent |-> parent]
        /\ stack = << [path |-> parent, at |-> "enter", todo |-> <<>>] >>
        /\ discovered = {parent}
    /\ loaded = <<>>
    /\ constructed = <<>>
    /\ missing = <<>>

\* the innermost active call of _load
Top == stack[Len(stack)]

\* lines 43-45: the path is already loaded, _load returns
LoadSkip ==
    /\ ppc = "loading" /\ stack # <<>>
    /\ Top.at = "enter"
    /\ Top.path \in Range(loaded)
    /\ stack' = SubSeq(stack, 1, Len(stack) - 1)
    /\ UNCHANGED << ppc, fs, loaded, constructed, discovered, missing >>
    /\ UNCHANGED << mainVars, cliVars, uiVars >>

\* lines 46-66: a RecipeTree is constructed and recorded; the loop over the
\* StepRecipeID elements is entered when the extension has a child extension
LoadFile ==
    /\ ppc = "loading" /\ stack # <<>>
    /\ Top.at = "enter"
    /\ Top.path \notin Range(loaded)
    /\ discovered' = discovered \cup {Top.path}
    /\ constructed' = Append(constructed, Top.path)
    /\ loaded' = Append(loaded, Top.path)
    /\ stack' = [stack EXCEPT ![Len(stack)] =
                    [path |-> @.path, at |-> "loop",
                     todo |-> IF child_ext(@.path.ext) = "" THEN <<>>
                              ELSE fs.files[@.path]]]
    /\ UNCHANGED << ppc, fs, missing >>
    /\ UNCHANGED << mainVars, cliVars, uiVars >>

\* the child path of the next StepRecipeID of the innermost call
Child == FilePath(safe_strip(Head(Top.todo)), child_ext(Top.path.ext))

\* the innermost call moves on to its next StepRecipeID
Advance == [stack EXCEPT ![Len(stack)].todo = Tail(@)]

\* lines 70-72: a StepRecipeID without a name is passed over
RefBlank ==
    /\ ppc = "loading" /\ stack # <<>>
    /\ Top.at = "loop" /\ Top.todo # <<>>
    /\ safe_strip(Head(Top.todo)) = EmptyStr
    /\ stack' = Advance
    /\ UNCHANGED << ppc, fs, loaded, constructed, discovered, missing >>
    /\ UNCHANGED << mainVars, cliVars, uiVars >>

\* lines 73-91: the child file exists, _load is called on it
RefFound ==
    /\ ppc = "loading" /\ stack # <<>>
    /\ Top.at = "loop" /\ Top.todo # <<>>
    /\ safe_strip(Head(Top.todo)) # EmptyStr
    /\ Child \in DOMAIN fs.files
    /\ discovered' = discovered \cup {Child}
    /\ stack' = Append(Advance, [path |-> Child, at |-> "enter", todo |-> <<>>])
    /\ UNCHANGED << ppc, fs, loaded, constructed, missing >>
    /\ UNCHANGED << mainVars, cliVars, uiVars >>

\* lines 92-102: the child file does not exist
RefMissing ==
    /\ ppc = "loading" /\ stack # <<>>
    /\ Top.at = "loop" /\ Top.todo # <<>>
    /\ safe_strip(Head(Top.todo)) # EmptyStr
    /\ Child \notin DOMAIN fs.files
    /\ missing' = IF Child \in DOMAIN missing
                  THEN [missing EXCEPT ![Child] = @ + 1]
                  ELSE missing @@ (Child :> 1)
    /\ stack' = Advance
    /\ UNCHANGED << ppc, fs, loaded, constructed, discovered >>
    /\ UNCHANGED << mainVars, cliVars, uiVars >>

\* the loop of the innermost call is exhausted, _load returns
LoadReturn ==
    /\ ppc = "loading" /\ stack # <<>>
    /\ Top.at = "loop" /\ Top.todo = <<>>
    /\ stack' = SubSeq(stack, 1, Len(stack) - 1)
    /\ UNCHANGED << ppc, fs, loaded, constructed, discovered, missing >>
    /\ UNCHANGED << mainVars, cliVars, uiVars >>

\* lines 105-126: the outermost _load returned; list(loaded.values())
ParseFinish ==
    /\ ppc = "loading" /\ stack = <<>>
    /\ ppc' = "done"
    /\ UNCHANGED << fs, stack, loaded, constructed, discovered, missing >>
    /\ UNCHANGED << mainVars, cliVars, uiVars >>

ParseNext ==
    \/ LoadSkip
    \/ LoadFile
    \/ RefBlank
    \/ RefFound
    \/ RefMissing
    \/ LoadReturn
    \/ ParseFinish

\* parse runs in one thread: it takes its next step whenever it has one
ParseSpec == ParseInit /\ [][ParseNext]_vars /\ WF_vars(ParseNext)

(***************************************************************************)
(* CLIRuntimeUI: a UI object and the lines it prints                       *)
(***************************************************************************)
\* how many calls of methods of the UI a behaviour makes
MaxUiCalls == 4

TaskKeys == { "parse", "import", "write" }

\* the descriptions the callbacks pass for their key, and another one
Descriptions ==
    { "Parsing XML files", "Applying workbook edits", "Writing updated XML files",
      "Something else" }

\* a faulty variant of ensure_task: the key is not recorded as announced
ensure_task_forgets(S, key, description) ==
    IF S.ui.enable_progress /\ S.ui.progress # "None"
    THEN [S EXCEPT !.ui.task_ids = @ \cup {key},
                   !.ui.repeated = IF key \in S.ui.task_ids THEN @ \cup {key} ELSE @]
    ELSE [S EXCEPT !.console = Append(@, [key |-> key,
                                          text |-> << "bullet", description >>]),
                   !.ui.repeated = IF key \in S.ui.announced THEN @ \cup {key} ELSE @]

\* ensure_task, on the UI and the console S; the key of a printed line is
\* kept with the line
ensure_task(S, key, description) ==
    IF S.ui.enable_progress /\ S.ui.progress # "None"
    THEN [S EXCEPT !.ui.task_ids = @ \cup {key},
                   !.ui.repeated = IF key \in S.ui.task_ids THEN @ \cup {key} ELSE @]
    ELSE IF key \notin S.ui.announced
    THEN [S EXCEPT !.console = Append(@, [key |-> key,
                                          text |-> << "bullet", description >>]),
                   !.ui.announced = @ \cup {key}]
    ELSE [S EXCEPT !.ui.repeated = @ \cup {key}]

\* update_task: the state of the rich task itself is not modelled
update_task(S, key, description) ==
    IF ~S.ui.enable_progress \/ S.ui.progress = "None" THEN S
    ELSE IF key \notin S.ui.task_ids THEN ensure_task(S, key, description)
    ELSE S

complete_task(S, key) == S

on_parse_progress(S, event) ==
    IF event \in {"discovered", "loaded"}
    THEN update_task(ensure_task(S, "parse", "Parsing XML files"), "parse",
                     "Parsing XML files")
    ELSE IF event = "finished"
    THEN complete_task(ensure_task(S, "parse", "Parsing XML files"), "parse")
    ELSE S

on_import_progress(S, event) ==
    IF event \in {"start", "sheet_done"}
    THEN update_task(ensure_task(S, "import", "Applying workbook edits"), "import",
                     "Applying workbook edits")
    ELSE IF event = "finished"
    THEN complete_task(ensure_task(S, "import", "Applying workbook edits"), "import")
    ELSE S

on_write_progress(S, event) ==
    IF event = "start"
    THEN ensure_task(S, "write", "Writing updated XML files")
    ELSE IF event = "file_written"
    THEN update_task(ensure_task(S, "write", "Writing updated XML files"), "write",
                     "Writing updated XML files")
    ELSE IF event = "finished"
    THEN complete_task(ensure_task(S, "write", "Writing updated XML files"), "write")
    ELSE S

\* a UI object is constructed, with progress enabled or disabled
UiInit ==
    /\ MainIdle
    /\ ParserIdle
    /\ \E enabled \in BOOLEAN :
         ui = [enable_progress |-> enabled, progress |-> "None", task_ids |-> {},
               announced |-> {}, repeated |-> {}]
    /\ console = <<>>
    /\ ncalls = 0

\* a call of a method leaves the UI and the console as S
Called(S) ==
    /\ ncalls' = ncalls + 1
    /\ ui' = S.ui
    /\ console' = S.console
    /\ UNCHANGED << mainVars, cliVars, parserVars >>

Now == [ui |-> ui, console |-> console]

\* __enter__
UiEnter ==
    /\ ncalls < MaxUiCalls
    /\ Called([Now EXCEPT !.ui.progress =
                    IF ui.enable_progress THEN "Progress" ELSE @])

\* __exit__
UiExit ==
    /\ ncalls < MaxUiCalls
    /\ Called([Now EXCEPT !.ui.progress = "None"])

CallEnsureTask ==
    /\ ncalls < MaxUiCalls
    /\ \E key \in TaskKeys : \E description \in Descriptions :
            Called(ensure_task(Now, key, description))

CallUpdateTask ==
    /\ ncalls < MaxUiCalls
    /\ \E key \in TaskKeys : \E description \in Descriptions :
            Called(update_task(Now, key, description))

CallCompleteTask ==
    /\ ncalls < MaxUiCalls
    /\ \E key \in TaskKeys : Called(complete_task(Now, key))

CallOnParseProgress ==
    /\ ncalls < MaxUiCalls
    /\ \E event \in {"discovered", "loaded", "missing_child", "finished"} :
            Called(on_parse_progress(Now, event))

CallOnImportProgress ==
    /\ ncalls < MaxUiCalls
    /\ \E event \in {"start", "sheet_start", "sheet_done", "finished"} :
            Called(on_import_progress(Now, event))

CallOnWriteProgress ==
    /\ ncalls < MaxUiCalls
    /\ \E event \in {"start", "file_written", "finished"} :
            Called(on_write_progress(Now, event))

UiNext ==
    \/ UiEnter
    \/ UiExit
    \/ CallEnsureTask
    \/ CallUpdateTask
    \/ CallCompleteTask
    \/ CallOnParseProgress
    \/ CallOnImportProgress
    \/ CallOnWriteProgress

UiSpec == UiInit /\ [][UiNext]_vars

(***************************************************************************)
(* Vocabulary of the properties.                                           *)
(***************************************************************************)
ZeroStats == [created |-> 0, updated |-> 0, deleted |-> 0]

Matched(s) == TreeOf(sheetnames[s]) # 0

\* the tree a sheet is matched to, in the current state
TreeFor(s) == trees[TreeOf(sheetnames[s])]

RowDict(s, j) == ReadRow(header, rows[s][j])
RowPath(r) == strip(Get(r, "FullPath", EmptyStr))
RowTag(r) == strip(Get(r, "TagType", EmptyStr))
RowDefer(r) == strip(Get(r, "Defer", EmptyStr))
RowName(r) == strip(Get(r, "Name", EmptyStr))

IsPrefix(a, b) == Len(a) <= Len(b) /\ a = SubSeq(b, 1, Len(a))

\* every sheet read so far holds exactly the rows the exporter wrote
SheetsUnmodified ==
    \A s \in DOMAIN rows :
        Matched(s) => rows[s] = sheet_data[TreeOf(sheetnames[s])]

\* the sheets read before the current one are as exported, and the rows read
\* of the current one are the first rows the exporter wrote
RowsUnmodifiedSoFar ==
    \A s \in DOMAIN rows :
        Matched(s) =>
            IF s < sheet
            THEN rows[s] = sheet_data[TreeOf(sheetnames[s])]
            ELSE IsPrefix(rows[s], sheet_data[TreeOf(sheetnames[s])])

\* the text of child k of an element; Absent when there is no such child
Absent == <<"<absent>">>
ChildText(E, el, k) == IF Find(E, el, k) = NoElem THEN Absent ELSE E[Find(E, el, k)].text

\* a row was read in this step; it is the last row of the current sheet
RowStepTaken == pc = "rows" /\ rows' # rows
NewRowDict == ReadRow(header, rows'[sheet][Len(rows'[sheet])])

\* the step called update_from_dict on an existing Parameter / FormulaValue
UpdatesParameter(r) ==
    /\ ImportTypeCount(r) <= IMPORT_TYPE_LIMIT
    /\ RowTag(r) = <<"Parameter">>
    /\ FindNode(TreeFor(sheet).parameters, RowPath(r)) # 0

UpdatesFormulaValue(r) ==
    /\ ImportTypeCount(r) <= IMPORT_TYPE_LIMIT
    /\ RowTag(r) = <<"FormulaValue">>
    /\ FirstIndex(RowPath(r), "/Steps/Step[") # 0
    /\ (RowDefer(r) = EmptyStr \/ RowDefer(r) \in excel_param_names)
    /\ FindNode(TreeFor(sheet).formula_values, RowPath(r)) # 0

\* the entities on which the step called update_from_dict (none or one)
UpdatedNodes(r) ==
    (IF UpdatesParameter(r)
     THEN {TreeFor(sheet).parameters[FindNode(TreeFor(sheet).parameters, RowPath(r))]}
     ELSE {})
    \cup
    (IF UpdatesFormulaValue(r)
     THEN {TreeFor(sheet).formula_values[FindNode(TreeFor(sheet).formula_values, RowPath(r))]}
     ELSE {})

\* the three row-level checks, read off the rows of the sheet
ParamNamesBefore(s, j) ==
    { RowName(RowDict(s, i)) : i \in { x \in 1..(j - 1) :
        /\ RowTag(RowDict(s, x)) = <<"Parameter">>
        /\ ImportTypeCount(RowDict(s, x)) <= IMPORT_TYPE_LIMIT } }

RowFails(s, j) ==
    \/ ImportTypeCount(RowDict(s, j)) > IMPORT_TYPE_LIMIT
    \/ RowTag(RowDict(s, j)) \notin {<<"Parameter">>, <<"FormulaValue">>}
    \/ /\ RowTag(RowDict(s, j)) = <<"FormulaValue">>
       /\ RowDefer(RowDict(s, j)) # EmptyStr
       /\ RowDefer(RowDict(s, j)) \notin ParamNamesBefore(s, j)

FailingRows ==
    UNION { { <<s, j>> : j \in { x \in DOMAIN rows[s] : RowFails(s, x) } } :
            s \in DOMAIN rows }

ErrorAt(s, j, kind) ==
    \E i \in DOMAIN errors :
        errors[i] = [at |-> [sheet |-> sheetnames[s], row |-> j + 1], kind |-> kind]

SheetDoneEvents(s) ==
    SelectSeq(events, LAMBDA e : e.event = "sheet_done" /\ e.sheet = sheetnames[s])

BlankPreserves ==
    [][ RowStepTaken =>
          \A node \in UpdatedNodes(NewRowDict) :
            \A k \in Range(Keys(node.original_subs)) :
                safe_strip(Get(NewRowDict, k, NoText)) = EmptyStr
                    => ChildText(trees'[TreeOf(sheetnames[sheet])].E, node.element, k)
                         = ChildText(TreeFor(sheet).E, node.element, k) ]_vars

(***************************************************************************)
(* C3  Non-blank overwrites.  When update_from_dict is applied to an       *)
(* existing entity, every field of its original snapshot whose cell is     *)
(* non-blank and differs from the child's current text makes the call      *)
(* report a change: the import goes on, the child holds the new text after *)
(* the reorder, and updated grows by one.                                  *)
(***************************************************************************)
NonBlankOverwrites ==
    [][ RowStepTaken =>
          \A node \in UpdatedNodes(NewRowDict) :
            \A k \in Range(Keys(node.original_subs)) :
                ( /\ safe_strip(Get(NewRowDict, k, NoText)) # EmptyStr
                  /\ safe_strip(Get(NewRowDict, k, NoText))
                        # safe_strip(ChildText(TreeFor(sheet).E, node.element, k)) )
                    => /\ pc' = "rows"
                       /\ ChildText(trees'[TreeOf(sheetnames[sheet])].E, node.element, k)
                            = safe_strip(Get(NewRowDict, k, NoText))
                       /\ stats'.updated = stats.updated + 1 ]_vars

(***************************************************************************)
(* C4  Deletion completeness.  Once a sheet is processed, every entity of  *)
(* its document whose path appears in no row of the sheet is gone from the *)
(* tree and from its collection, and the sheet's deleted count is exactly  *)
(* the number of those entities.                                           *)
(***************************************************************************)
SheetPaths(s) == { RowPath(RowDict(s, j)) : j \in DOMAIN rows[s] }

Gone(t, el) ==
    /\ ~Attached(t.E, el)
    /\ \A i \in DOMAIN t.parameters : t.parameters[i].element # el
    /\ \A i \in DOMAIN t.formula_values : t.formula_values[i].element # el

Unlisted(s, nodes) == { i \in DOMAIN nodes : nodes[i].fullpath \notin SheetPaths(s) }

DeletionCompleteness ==
    \A s \in DOMAIN rows :
        (pc \in {"sheets", "rows", "returned", "raised", "crashed"}
            /\ s < sheet /\ Matched(s)) =>
          /\ \A i \in Unlisted(s, before[TreeOf(sheetnames[s])].parameters) :
                Gone(TreeFor(s), before[TreeOf(sheetnames[s])].parameters[i].element)
          /\ \A i \in Unlisted(s, before[TreeOf(sheetnames[s])].formula_values) :
                Gone(TreeFor(s), before[TreeOf(sheetnames[s])].formula_values[i].element)
          /\ SheetDoneEvents(s)[1].deleted =
                Cardinality(Unlisted(s, before[TreeOf(sheetnames[s])].parameters))
                + Cardinality(Unlisted(s, before[TreeOf(sheetnames[s])].formula_values))

(***************************************************************************)
(* C5  No mutation on rejected import.  When import_changes ends with the  *)
(* aggregate ValidationError, every document whose sheet had a failing row *)
(* is as it was when the import started: nothing created, updated or       *)
(* deleted.                                                                *)
(***************************************************************************)
NoMutationOnRejectedImport ==
    pc = "raised" =>
        \A s \in DOMAIN rows :
            (Matched(s) /\ \E j \in DOMAIN rows[s] : RowFails(s, j))
                => TreeFor(s) = before[TreeOf(sheetnames[s])]

(***************************************************************************)
(* C6  Error aggregation.  A row-level error never ends the import: the    *)
(* rows after it and the sheets after it are still read.  The errors       *)
(* recorded are one per failing row; after the last sheet the import       *)
(* raises one ValidationError counting them, and returns the stats when no *)
(* row failed.                                                             *)
(***************************************************************************)
LastRowRead == <<sheet, Len(rows[sheet])>>

ErrorAggregation ==
    /\ pc \in {"sheets", "rows", "returned", "raised"}
            => Len(errors) = Cardinality(FailingRows)
    /\ pc = "crashed" => /\ LastRowRead \notin FailingRows
                         /\ Len(errors) = Cardinality(FailingRows)
    /\ pc = "raised" => /\ FailingRows # {}
                        /\ exc = "ValidationError"
                        /\ sheet > Len(sheetnames)
                        /\ \A s \in DOMAIN rows : Matched(s) => Len(SheetDoneEvents(s)) = 1
    /\ pc = "returned" => /\ FailingRows = {}
                          /\ exc = NoExc
                          /\ events[Len(events)] = [event |-> "finished", stats |-> stats]

\* two sheets each had a failing row followed by a row that was applied
ErrorsAggregated ==
    /\ pc = "raised"
    /\ Len(errors) >= 2
    /\ \E s1, s2 \in DOMAIN rows :
        /\ s1 < s2
        /\ \E j \in DOMAIN rows[s1] : <<s1, j>> \in FailingRows
        /\ \E j \in DOMAIN rows[s2] : <<s2, j>> \in FailingRows
    /\ \E x \in FailingRows : x[2] < Len(rows[x[1]]) /\ <<x[1], x[2] + 1>> \notin FailingRows

(***************************************************************************)
(* C7  Batch-scoped Defer resolution.  A FormulaValue row with a non-blank *)
(* Defer is accepted exactly when the same sheet holds a Parameter row     *)
(* whose Name is that Defer, wherever that row sits in the sheet;          *)
(* otherwise the row is recorded as an error.                              *)
(***************************************************************************)
ParameterRowNames(s) ==
    { RowName(RowDict(s, j)) :
        j \in { x \in DOMAIN rows[s] : RowTag(RowDict(s, x)) = <<"Parameter">> } }

BatchScopedDefer ==
    pc \in {"returned", "raised"} =>
        \A s \in DOMAIN rows : \A j \in DOMAIN rows[s] :
            ( /\ RowTag(RowDict(s, j)) = <<"FormulaValue">>
              /\ ImportTypeCount(RowDict(s, j)) <= IMPORT_TYPE_LIMIT
              /\ RowDefer(RowDict(s, j)) # EmptyStr )
                => (ErrorAt(s, j, "defer")
                        <=> RowDefer(RowDict(s, j)) \notin ParameterRowNames(s))

(***************************************************************************)
(* C8  Type exclusivity.  A row in which more than one of Real, Integer,   *)
(* String, EnumerationSet (and Defer, for a FormulaValue row) is non-blank *)
(* is rejected: it is recorded as an error and the tree is unchanged.      *)
(***************************************************************************)
TypeFieldsOf(r) ==
    {"Real", "Integer", "String", "EnumerationSet"}
        \cup (IF RowTag(r) = <<"FormulaValue">> THEN {"Defer"} ELSE {})

MoreThanOneType(r) ==
    Cardinality({ f \in TypeFieldsOf(r) : safe_strip(Get(r, f, NoText)) # EmptyStr }) > 1

TypeExclusivity ==
    [][ (RowStepTaken /\ MoreThanOneType(NewRowDict)) =>
            /\ trees' = trees
            /\ Len(errors') = Len(errors) + 1 ]_vars

(***************************************************************************)
(* C9  Path uniqueness.  Once extract_nodes has run, and after every       *)
(* import, no two Parameter entities of a document have the same FullPath  *)
(* and no two FormulaValue entities have the same FullPath.                *)
(***************************************************************************)
DistinctPaths(nodes) ==
    \A i, j \in DOMAIN nodes : i # j => nodes[i].fullpath # nodes[j].fullpath

PathUniqueness ==
    pc \in {"parsed", "exported", "returned", "raised", "crashed"} =>
        \A i \in DOMAIN trees :
            DistinctPaths(trees[i].parameters) /\ DistinctPaths(trees[i].formula_values)

(***************************************************************************)
(* C10  Collection/tree consistency.  After extract_nodes, and after every *)
(* create, update or delete of the import, each entity wraps one element   *)
(* of its kind attached to the tree, no element is wrapped twice, and      *)
(* every attached Parameter or FormulaValue element is wrapped by an       *)
(* entity.                                                                 *)
(***************************************************************************)
Wrapped(t) ==
    { t.parameters[i].element : i \in DOMAIN t.parameters }
        \cup { t.formula_values[i].element : i \in DOMAIN t.formula_values }

Consistent(t) ==
    /\ \A i \in DOMAIN t.parameters :
            /\ Attached(t.E, t.parameters[i].element)
            /\ t.E[t.parameters[i].element].tag = "Parameter"
    /\ \A i \in DOMAIN t.formula_values :
            /\ Attached(t.E, t.formula_values[i].element)
            /\ t.E[t.formula_values[i].element].tag = "FormulaValue"
    /\ Cardinality(Wrapped(t)) = Len(t.parameters) + Len(t.formula_values)
    /\ \A el \in DOMAIN t.E :
            (t.E[el].tag \in {"Parameter", "FormulaValue"} /\ Attached(t.E, el))
                => el \in Wrapped(t)

CollectionTreeConsistency ==
    pc # "new" => \A i \in DOMAIN trees : Consistent(trees[i])

(***************************************************************************)
(* Creation of entities.                                                   *)
(***************************************************************************)
\* the children of the root of a store, in document order
RootKids(E) == E[RootId].kids

\* the children of the root with a given tag, in document order
RootKidsTagged(E, tag) == SelectSeq(RootKids(E), LAMBDA c : E[c].tag = tag)

\* the place of an element among the children of the root
Place(E, c) == IndexOf(E, RootId, c) + 1

\* every Parameter child of the root precedes the Steps container
ParametersPrecedeSteps(E) ==
    /\ Find(E, RootId, "Steps") # NoElem
    /\ \A c \in Range(RootKidsTagged(E, "Parameter")) :
            Place(E, c) < Place(E, Find(E, RootId, "Steps"))

\* the root of store N has the children of the root of store E and one new
\* Parameter at place p
InsertedAt(E, N, p) ==
    /\ p \in DOMAIN RootKids(N)
    /\ RootKids(N)[p] \notin Range(RootKids(E))
    /\ N[RootKids(N)[p]].tag = "Parameter"
    /\ RootKids(E) = SubSeq(RootKids(N), 1, p - 1)
                        \o SubSeq(RootKids(N), p + 1, Len(RootKids(N)))

\* place p is where create_parameter is said to put the new element
AnchoredAt(E, N, p) ==
    /\ RootKidsTagged(E, "Parameter") # <<>> =>
            /\ p > 1
            /\ RootKids(N)[p - 1] =
                    RootKidsTagged(E, "Parameter")[Len(RootKidsTagged(E, "Parameter"))]
    /\ (RootKidsTagged(E, "Parameter") = <<>> /\ Find(E, RootId, "Steps") # NoElem) =>
            /\ p < Len(RootKids(N))
            /\ RootKids(N)[p + 1] = Find(E, RootId, "Steps")
    /\ ParametersPrecedeSteps(E) =>
            /\ \A c \in Range(RootKidsTagged(E, "Parameter")) : Place(N, c) < p
            /\ p < Place(N, Find(E, RootId, "Steps"))

\* C11 (Parameter creation anchor): whenever a row changes the children of
\* the root of its document, exactly one Parameter element was added; it
\* stands immediately after the last Parameter child the root had before the
\* row, or immediately before Steps when the root had no Parameter; and where
\* all Parameters preceded Steps, it follows every earlier Parameter and
\* precedes Steps.
ParameterCreationAnchor ==
    [][RowStepTaken =>
        (RootKids(trees'[TreeOf(sheetnames[sheet])].E)
            # RootKids(trees[TreeOf(sheetnames[sheet])].E) =>
         \E p \in DOMAIN RootKids(trees'[TreeOf(sheetnames[sheet])].E) :
            /\ InsertedAt(trees[TreeOf(sheetnames[sheet])].E,
                          trees'[TreeOf(sheetnames[sheet])].E, p)
            /\ AnchoredAt(trees[TreeOf(sheetnames[sheet])].E,
                          trees'[TreeOf(sheetnames[sheet])].E, p))]_vars

\* the names of the Parameter children of the root, in document order
RootParameterNames(E) ==
    [i \in DOMAIN RootKidsTagged(E, "Parameter") |->
        ChildText(E, RootKidsTagged(E, "Parameter")[i], "Name")]

\* two Parameters were created by two rows of one import, and stand in row
\* order after the Parameters of the file and before Steps
TwoParametersCreated ==
    /\ scn = "create" /\ pc = "rows"
    /\ RootParameterNames(trees[1].E)
            = << <<"Param1">>, <<"Param2">>, <<"Param5">>, <<"Param4">> >>
    /\ ParametersPrecedeSteps(trees[1].E)

\* a Parameter was created in a document that had none, before Steps
FirstParameterCreated ==
    /\ scn = "expr" /\ pc = "rows"
    /\ RootKidsTagged(before[1].E, "Parameter") = <<>>
    /\ RootParameterNames(trees[1].E) = << <<"PX">> >>
    /\ ParametersPrecedeSteps(trees[1].E)

\* the step called create_formulavalue
CreatesFormulaValue(r) ==
    /\ ImportTypeCount(r) <= IMPORT_TYPE_LIMIT
    /\ RowTag(r) = <<"FormulaValue">>
    /\ FirstIndex(RowPath(r), "/Steps/Step[") # 0
    /\ (RowDefer(r) = EmptyStr \/ RowDefer(r) \in excel_param_names)
    /\ FindNode(TreeFor(sheet).formula_values, RowPath(r)) = 0

\* the path of the row parses, and names a Step the document does not have
NamesMissingStep(r) ==
    /\ StepMatches(Get(r, "FullPath", EmptyStr)) # {}
    /\ StepsNamed(TreeFor(sheet).E, StepGroup(Get(r, "FullPath", EmptyStr))) = <<>>

\* C12 (Missing Step on create): a row that makes the importer call
\* create_formulavalue with a path naming a Step the document does not have
\* ends in a ValidationError, and leaves the tree and its collections as
\* they were.
MissingStepOnCreate ==
    [][(RowStepTaken /\ CreatesFormulaValue(NewRowDict) /\ NamesMissingStep(NewRowDict)) =>
        /\ exc' = "ValidationError"
        /\ trees' = trees]_vars

\* create_formulavalue was called for a Step the document does not have
MissingStepCreateCalled ==
    /\ pc = "crashed"
    /\ CreatesFormulaValue(RowDict(sheet, Len(rows[sheet])))
    /\ NamesMissingStep(RowDict(sheet, Len(rows[sheet])))
    /\ trees = before

(***************************************************************************)
(* Reordering.                                                             *)
(***************************************************************************)
\* the entities of a tree, each with the reorder_children of its class
Reordered(t) ==
    { [node |-> t.parameters[i], R |-> ParameterReorder(t.E, t.parameters[i])] :
        i \in DOMAIN t.parameters }
    \cup
    { [node |-> t.formula_values[i], R |-> FormulaValueReorder(t.E, t.formula_values[i])] :
        i \in DOMAIN t.formula_values }

\* the child elements of an entity in a store
KidsOf(E, node) == E[node.element].kids

\* C13 (Reordering never drops a child): for every entity of every tree, in
\* every state, a successful reorder_children keeps every child element the
\* entity has.
ReorderKeepsChildren ==
    \A i \in DOMAIN trees : \A x \in Reordered(trees[i]) :
        x.R.exc = NoExc =>
            Range(KidsOf(trees[i].E, x.node)) \subseteq Range(KidsOf(x.R.E, x.node))

\* the ParamExpression document was exported, imported with no edit and
\* written, and the FormulaValue written has no ParamExpression child
ParamExpressionLost ==
    /\ scn = "expr" /\ pc = "written"
    /\ SheetsUnmodified /\ stats = ZeroStats
    /\ Find(before[1].E, before[1].formula_values[1].element, "ParamExpression") # NoElem
    /\ Find(written[1].E, trees[1].formula_values[1].element, "ParamExpression") = NoElem

(***************************************************************************)
(* Fields outside the fixed columns.                                       *)
(***************************************************************************)
\* the cell of field k is blank, and k is neither a fixed column nor in the
\* snapshot of the entity
BlankUnknown(r, n, k) ==
    /\ k \notin Range(EXCEL_COLUMNS)
    /\ ~HasKey(n.original_subs, k)
    /\ HasKey(r, k)
    /\ safe_strip(Get(r, k, EmptyStr)) = EmptyStr

\* the entity has a child k in store N and had none in store E
GainsChild(E, N, n, k) ==
    /\ (n.element \notin DOMAIN E \/ Find(E, n.element, k) = NoElem)
    /\ Find(N, n.element, k) # NoElem

\* an element as etree.Element(tag) makes it
IsPlaceholder(N, c) == N[c].text = NoText /\ N[c].kids = <<>> /\ N[c].attrib = <<>>

\* the entities of the document of the current sheet after the step
ParametersAfter == Range(trees'[TreeOf(sheetnames[sheet])].parameters)
FormulaValuesAfter == Range(trees'[TreeOf(sheetnames[sheet])].formula_values)
StoreBefore == trees[TreeOf(sheetnames[sheet])].E
StoreAfter == trees'[TreeOf(sheetnames[sheet])].E

\* C14 as stated (Unknown-field pass-through): a blank cell of a field that
\* is neither a fixed column nor in the snapshot never leaves the entity
\* with a child of that name it did not have.
UnknownFieldPassThrough ==
    [][RowStepTaken =>
        \A n \in ParametersAfter \cup FormulaValuesAfter : \A k \in Range(header) :
            BlankUnknown(NewRowDict, n, k) => ~GainsChild(StoreBefore, StoreAfter, n, k)]_vars

\* C14 (Unknown-field pass-through), amended: when a blank cell of such a
\* field leaves the entity with a child of that name it did not have, the
\* name is a slot of the canonical order of the entity and the child is the
\* empty placeholder reorder_children makes; a name outside the canonical
\* order is never added.
UnknownFieldOnlyAsPlaceholder ==
    [][RowStepTaken =>
        /\ \A n \in ParametersAfter : \A k \in Range(header) :
              (BlankUnknown(NewRowDict, n, k) /\ GainsChild(StoreBefore, StoreAfter, n, k)) =>
                /\ k \in Range(ParameterOrder(
                        ChildrenByTag(StoreAfter, KidsOf(StoreAfter, n), <<>>)))
                /\ IsPlaceholder(StoreAfter, Find(StoreAfter, n.element, k))
        /\ \A n \in FormulaValuesAfter : \A k \in Range(header) :
              (BlankUnknown(NewRowDict, n, k) /\ GainsChild(StoreBefore, StoreAfter, n, k)) =>
                /\ TypesFound(ChildrenByTag(StoreAfter, KidsOf(StoreAfter, n), <<>>))
                        # <<>>
                /\ k \in Range(FormulaValueOrder(
                        ChildrenByTag(StoreAfter, KidsOf(StoreAfter, n), <<>>)))
                /\ IsPlaceholder(StoreAfter, Find(StoreAfter, n.element, k))]_vars

\* a created Parameter, whose row left ERPAlias, Display and Value blank, has
\* the placeholder ERPAlias of its canonical order and neither Display nor Value
PlaceholderSynthesized ==
    /\ scn = "flow" /\ pc = "rows"
    /\ \E n \in Range(trees[1].parameters) :
        /\ n.original_subs = <<>>
        /\ \A k \in {"ERPAlias", "Display", "Value"} :
              BlankUnknown(RowDict(sheet, Len(rows[sheet])), n, k)
        /\ Find(trees[1].E, n.element, "ERPAlias") # NoElem
        /\ IsPlaceholder(trees[1].E, Find(trees[1].E, n.element, "ERPAlias"))
        /\ Find(trees[1].E, n.element, "Display") = NoElem
        /\ Find(trees[1].E, n.element, "Value") = NoElem

(***************************************************************************)
(* The excel2xml command.                                                  *)
(***************************************************************************)
\* import_changes ended with a ValidationError
ImportRaisedValidationError == exc = "ValidationError" /\ pc # "write_failed"

\* C15 (excel2xml phase ordering): the calls made so far are an initial part
\* of parse, import_changes, write; once import_changes has raised
\* ValidationError, write is not called, no file is written, and the only
\* exit code the command ends with is 1.
PhaseOrdering ==
    /\ IsPrefix(calls, << "parse", "import_changes", "write" >>)
    /\ ImportRaisedValidationError =>
            /\ "write" \notin Range(calls)
            /\ written = <<>>
            /\ exit_code \in {Running, 1}
    /\ exit_code = 0 => calls = << "parse", "import_changes", "write" >>

\* the import raised its aggregate ValidationError and the command has ended
\* with code 1
ValidationErrorExit ==
    /\ pc = "raised" /\ errors # <<>>
    /\ calls = << "parse", "import_changes" >>
    /\ exit_code = 1

\* the entities of a tree on which reorder_children succeeds, each with the
\* store after one call and the result of a second call
ReorderedTwice(t) ==
    { [node |-> t.parameters[i],
       first |-> ParameterReorder(t.E, t.parameters[i]).E,
       second |-> ParameterReorder(ParameterReorder(t.E, t.parameters[i]).E,
                                   t.parameters[i])] :
        i \in { x \in DOMAIN t.parameters :
                    ParameterReorder(t.E, t.parameters[x]).exc = NoExc } }
    \cup
    { [node |-> t.formula_values[i],
       first |-> FormulaValueReorder(t.E, t.formula_values[i]).E,
       second |-> FormulaValueReorder(FormulaValueReorder(t.E, t.formula_values[i]).E,
                                      t.formula_values[i])] :
        i \in { x \in DOMAIN t.formula_values :
                    FormulaValueReorder(t.E, t.formula_values[x]).exc = NoExc } }

\* the tags of the children of an entity, in document order
KidTags(E, node) == [i \in DOMAIN KidsOf(E, node) |-> E[KidsOf(E, node)[i]].tag]

\* C16 (Ordering idempotence): for every entity on which reorder_children
\* succeeds, a second call succeeds too and leaves the children, as elements
\* and as tags, in the sequence the first call produced.
OrderingIdempotence ==
    \A i \in DOMAIN trees : \A x \in ReorderedTwice(trees[i]) :
        /\ x.second.exc = NoExc
        /\ KidsOf(x.second.E, x.node) = KidsOf(x.first, x.node)
        /\ KidTags(x.second.E, x.node) = KidTags(x.first, x.node)

\* after an import, reorder_children changes the child sequence of some
\* entity, and a second call changes nothing more
ReorderedOnceChanged ==
    /\ pc = "returned"
    /\ \E i \in DOMAIN trees : \E x \in ReorderedTwice(trees[i]) :
        /\ KidsOf(x.first, x.node) # KidsOf(trees[i].E, x.node)
        /\ KidsOf(x.second.E, x.node) = KidsOf(x.first, x.node)

(***************************************************************************)
(* Documents of one workbook.                                              *)
(***************************************************************************)
\* what import_changes makes of a document from its own sheet alone
Alone(s, sheet_rows) ==
    Reconcile(before[TreeOf(sheetnames[s])], sheetnames[s], header, sheet_rows)

\* the tree of the document of sheet s, and the counts reported for the
\* sheet, are those its own rows give
OwnRowsDecide(s) ==
    /\ Alone(s, rows[s]).exc = NoExc
    /\ TreeFor(s) = Alone(s, rows[s]).t
    /\ Len(SheetDoneEvents(s)) = 1
    /\ \A f \in {"Created", "Updated", "Deleted"} :
         SheetTotal(Alone(s, rows[s]).c.sheet_stats, f)
            = (CASE f = "Created" -> SheetDoneEvents(s)[1].created
                 [] f = "Updated" -> SheetDoneEvents(s)[1].updated
                 [] f = "Deleted" -> SheetDoneEvents(s)[1].deleted)

\* contents a sheet the importer has not opened may have: as exported, or
\* with every row deleted
UnreadContents(s) == { sheet_data[TreeOf(sheetnames[s])], <<>> }

EntityElements(t) ==
    {t.parameters[i].element : i \in DOMAIN t.parameters}
    \cup {t.formula_values[i].element : i \in DOMAIN t.formula_values}

\* the entities of the document of sheet s the import created and deleted,
\* read off the trees before and after
CreatedEntities(s) ==
    EntityElements(TreeFor(s)) \ EntityElements(before[TreeOf(sheetnames[s])])

DeletedEntities(s) ==
    EntityElements(before[TreeOf(sheetnames[s])]) \ EntityElements(TreeFor(s))

\* created plus updated, as counted for a sheet after its first j rows
CountedAfter(s, j) ==
    With(ReconcileRows(before[TreeOf(sheetnames[s])], NewContext, sheetnames[s],
                       header, SubSeq(rows[s], 1, j), 1).c.sheet_stats,
         LAMBDA ss : SheetTotal(ss, "Created") + SheetTotal(ss, "Updated"))

\* row j of sheet s was counted as a creation or an update
Counted(s, j) == CountedAfter(s, j) > CountedAfter(s, j - 1)

\* the entity of a path is in the tree of sheet s
Present(s, path) ==
    \/ FindNode(TreeFor(s).parameters, path) # 0
    \/ FindNode(TreeFor(s).formula_values, path) # 0

\* C20 (Exclusive classification): when the import has run through every
\* sheet, no two counted rows of a sheet have the same path (no entity is
\* counted as created and updated, or as updated twice), the entity of every
\* counted row is in the tree (none is counted and then deleted), and
\* created and deleted do not exceed the numbers of entities the document
\* has gained and lost.
ExclusiveClassification ==
    pc \in {"returned", "raised"} =>
        \A s \in DOMAIN sheetnames :
            Matched(s) =>
                /\ \A i, j \in DOMAIN rows[s] :
                      (i < j /\ Counted(s, i) /\ Counted(s, j)) =>
                          RowPath(RowDict(s, i)) # RowPath(RowDict(s, j))
                /\ \A j \in DOMAIN rows[s] :
                      Counted(s, j) => Present(s, RowPath(RowDict(s, j)))
                /\ Len(SheetDoneEvents(s)) = 1
                /\ SheetDoneEvents(s)[1].created <= Cardinality(CreatedEntities(s))
                /\ SheetDoneEvents(s)[1].deleted <= Cardinality(DeletedEntities(s))

\* the exported row of Param1 was edited and a second row of the same path
\* appended; nothing was created or deleted, and Param1 is counted twice
CountedTwice ==
    /\ scn = "repeat" /\ pc = "returned"
    /\ stats = [created |-> 0, updated |-> 2, deleted |-> 0]
    /\ Len(rows[1]) = Len(sheet_data[1]) + 1
    /\ RowPath(RowDict(1, 1)) = RowPath(RowDict(1, Len(rows[1])))

\* a Parameter was created by one row and updated by the next
CreatedAndUpdated ==
    /\ scn = "repeat" /\ pc = "returned"
    /\ stats = [created |-> 1, updated |-> 1, deleted |-> 0]
    /\ Cardinality(CreatedEntities(1)) = 1
    /\ rows[1] = sheet_data[1]
                    \o << rows[1][Len(rows[1]) - 1], rows[1][Len(rows[1])] >>

(***************************************************************************)
(* The files XMLParser.parse loads.                                        *)
(***************************************************************************)
\* the files a file names in its StepRecipeID elements, and that exist
ChildrenOf(path) ==
    IF child_ext(path.ext) = "" THEN {}
    ELSE { c \in DOMAIN fs.files :
            \E i \in DOMAIN fs.files[path] :
                /\ safe_strip(fs.files[path][i]) # EmptyStr
                /\ c = FilePath(safe_strip(fs.files[path][i]), child_ext(path.ext)) }

\* the parent, its children and their children
Referenced ==
    {fs.parent}
    \cup ChildrenOf(fs.parent)
    \cup UNION { ChildrenOf(c) : c \in ChildrenOf(fs.parent) }

\* no RecipeTree is constructed twice for one file
ConstructedOnce ==
    \A i, j \in DOMAIN constructed : i # j => constructed[i] # constructed[j]

\* the returned list: one tree per file, the parent first, in the order of
\* the first load, and the files are those referenced
ReturnedList ==
    ppc = "done" =>
        /\ loaded = constructed
        /\ loaded[1] = fs.parent
        /\ Range(loaded) = Referenced

\* C18 (Load-once parsing): parse terminates; no file is loaded twice; the
\* list returned has one tree per referenced file that exists, the parent
\* first, in the order of the first load.
LoadOnceParsing ==
    /\ [](ConstructedOnce /\ ReturnedList)
    /\ <>(ppc = "done")

\* a parse has returned three or more trees, of files that several
\* StepRecipeID elements name, some of them in two files
SharedChildLoaded ==
    /\ ppc = "done"
    /\ Len(loaded) >= 3
    /\ \E c \in Range(loaded) :
          Cardinality({ f \in Range(loaded) : c \in ChildrenOf(f) }) >= 2
    /\ \E f \in Range(loaded) :
          Cardinality({ i \in DOMAIN fs.files[f] :
                          safe_strip(fs.files[f][i]) = <<"U1">> }) >= 2

(***************************************************************************)
(* The lines a CLIRuntimeUI prints.                                        *)
(***************************************************************************)
\* the lines printed for a key
LinesOf(key) == { i \in DOMAIN console : console[i].key = key }

\* C19 (Announce-once): with progress disabled, whatever methods have been
\* called, at most one line has been printed for each task key.
AnnounceOnce ==
    ~ui.enable_progress => \A key \in TaskKeys : Cardinality(LinesOf(key)) <= 1

\* with progress disabled, ensure_task was called again for a key already
\* announced, and the console holds the one line for "Parsing XML files"
AnnouncedAgain ==
    /\ ~ui.enable_progress
    /\ "parse" \in ui.repeated
    /\ console = << [key |-> "parse", text |-> << "bullet", "Parsing XML files" >>] >>

(***************************************************************************)
(* The canonical order of the children of an entity.                       *)
(***************************************************************************)
\* the four fixed orderings of a Parameter, by data type
CanonicalSlots(ty) ==
    << "Name", "ERPAlias", "PLCReference" >>
    \o (CASE ty = "String" -> << "String", "EngineeringUnits" >>
          [] ty = "Integer" ->
                << "Integer", "High", "Low", "EngineeringUnits", "Scale" >>
          [] ty = "Real" -> << "Real", "High", "Low", "EngineeringUnits", "Scale" >>
          [] ty = "EnumerationSet" -> << "EnumerationSet", "EnumerationMember" >>)

\* the data-type fields an element has, in the order String, Integer, Real,
\* EnumerationSet
TypeFieldsPresent(E, el) ==
    SelectSeq(<< "String", "Integer", "Real", "EnumerationSet" >>,
              LAMBDA ty : Find(E, el, ty) # NoElem)

\* in store N the children of el are the slots `slots`, each once and in that
\* order; a slot el had a child for in store E holds that child, and every
\* other slot holds a new empty element
SlotsFilled(E, N, el, slots) ==
    /\ Len(N[el].kids) = Len(slots)
    /\ \A p \in DOMAIN slots :
          /\ N[N[el].kids[p]].tag = slots[p]
          /\ IF Find(E, el, slots[p]) = NoElem
             THEN /\ N[el].kids[p] \notin DOMAIN E
                  /\ IsPlaceholder(N, N[el].kids[p])
             ELSE /\ N[el].kids[p] \in Range(E[el].kids)
                  /\ N[N[el].kids[p]] = E[N[el].kids[p]]

\* C21 (Parameter canonical order): for every Parameter entity of every
\* tree, in every state, when reorder_children succeeds the entity has a
\* data-type field and its children are exactly the slots of the fixed
\* ordering of that field (of the first of String, Integer, Real,
\* EnumerationSet it has), each once and in that order, the slots it had no
\* child for filled with new empty elements.
ParameterCanonicalOrder ==
    \A i \in DOMAIN trees : \A j \in DOMAIN trees[i].parameters :
        With(ParameterReorder(trees[i].E, trees[i].parameters[j]),
             LAMBDA R :
               R.exc = NoExc =>
                 /\ TypeFieldsPresent(trees[i].E, trees[i].parameters[j].element) # <<>>
                 /\ SlotsFilled(trees[i].E, R.E, trees[i].parameters[j].element,
                        CanonicalSlots(Head(TypeFieldsPresent(
                            trees[i].E, trees[i].parameters[j].element)))))

\* a row created an Integer Parameter from Name and Integer alone; after the
\* reorder of the create its children are the eight slots of the Integer
\* ordering, six of them empty elements the reorder made
IntegerParameterOrdered ==
    /\ scn = "create" /\ pc = "rows"
    /\ \E n \in Range(trees[1].parameters) :
        /\ n.element \notin DOMAIN before[1].E
        /\ KidTags(trees[1].E, n) =
              << "Name", "ERPAlias", "PLCReference", "Integer", "High", "Low",
                 "EngineeringUnits", "Scale" >>
        /\ Cardinality({ c \in Range(KidsOf(trees[1].E, n)) :
                            IsPlaceholder(trees[1].E, c) }) = 6

\* the order of the children of a FormulaValue whose data type is ty, by the
\* children the element has in store E
FormulaValueSlots(E, el, ty) ==
    << "Name", "Display" >>
    \o (IF Find(E, el, "Defer") # NoElem THEN <<"Defer">> ELSE <<"Value">>)
    \o << ty >>
    \o (IF Find(E, el, "EnumerationMember") # NoElem
        THEN <<"EnumerationMember">> ELSE <<>>)
    \o (IF ty \in {"Integer", "Real"} THEN <<"EngineeringUnits">> ELSE <<>>)
    \o (IF Find(E, el, "FormulaValueLimit") # NoElem
        THEN <<"FormulaValueLimit">> ELSE <<>>)

\* C22 (FormulaValue canonical order): for every FormulaValue entity of every
\* tree, in every state, that has a data-type child, reorder_children
\* succeeds and leaves the children Name, Display, Defer if there was a Defer
\* child else Value, one data-type child, EnumerationMember if there was one,
\* EngineeringUnits if the data type is Integer or Real, FormulaValueLimit if
\* there was one, in that order and nothing else.
FormulaValueCanonicalOrder ==
    \A i \in DOMAIN trees : \A j \in DOMAIN trees[i].formula_values :
        TypeFieldsPresent(trees[i].E, trees[i].formula_values[j].element) # <<>> =>
            With(FormulaValueReorder(trees[i].E, trees[i].formula_values[j]),
                 LAMBDA R :
                   /\ R.exc = NoExc
                   /\ \E ty \in Range(TypeFieldsPresent(
                                  trees[i].E, trees[i].formula_values[j].element)) :
                        KidTags(R.E, trees[i].formula_values[j]) =
                            FormulaValueSlots(trees[i].E,
                                              trees[i].formula_values[j].element, ty))

\* an import that returned left a FormulaValue with an Integer and a Real
\* child, both kept by the reorder of the update
TwoDataTypesKept ==
    /\ pc = "returned"
    /\ \E i \in DOMAIN trees : \E n \in Range(trees[i].formula_values) :
        /\ Find(trees[i].E, n.element, "Integer") # NoElem
        /\ Find(trees[i].E, n.element, "Real") # NoElem
        /\ FormulaValueReorder(trees[i].E, n).exc = NoExc
        /\ KidsOf(FormulaValueReorder(trees[i].E, n).E, n) = KidsOf(trees[i].E, n)

(***************************************************************************)
(* Defer and Value of a FormulaValue row.                                  *)
(***************************************************************************)
\* the text of child k of an element before the step; Absent for an element
\* the step made
TextBefore(el, k) ==
    IF el \in DOMAIN StoreBefore THEN ChildText(StoreBefore, el, k) ELSE Absent

\* C23 (Defer/Value exclusivity on apply): when a row makes the importer call
\* update_from_dict of a FormulaValue (found or just created), then, if the
\* Defer cell is non-blank, no FormulaValue element gets a Value text it did
\* not have, also when the Value cell is filled; and if the Defer cell is
\* blank, no FormulaValue element gains, loses or changes a Defer child.
DeferValueExclusivity ==
    [][(RowStepTaken
        /\ (UpdatesFormulaValue(NewRowDict) \/ CreatesFormulaValue(NewRowDict))) =>
        \A el \in DOMAIN StoreAfter :
            StoreAfter[el].tag = "FormulaValue" =>
                /\ RowDefer(NewRowDict) # EmptyStr =>
                      ChildText(StoreAfter, el, "Value")
                          \in {Absent, TextBefore(el, "Value")}
                /\ RowDefer(NewRowDict) = EmptyStr =>
                      /\ ChildText(StoreAfter, el, "Defer") = TextBefore(el, "Defer")
                      /\ el \in DOMAIN StoreBefore =>
                            Find(StoreAfter, el, "Defer") = Find(StoreBefore, el, "Defer")]_vars

\* the last row read
LastRow == RowDict(sheet, Len(rows[sheet]))

\* update_from_dict was called for a row with Defer and Value both filled,
\* on a FormulaValue that defers; the element holds the Defer and no Value
DeferAndValueFilled ==
    /\ scn = "defer" /\ pc = "rows" /\ errors = <<>>
    /\ Len(rows[sheet]) >= 1
    /\ RowDefer(LastRow) = <<"P1">>
    /\ RowTag(LastRow) = <<"FormulaValue">>
    /\ FindNode(TreeFor(sheet).formula_values, RowPath(LastRow)) # 0
    /\ FindNode(before[1].formula_values, RowPath(LastRow)) # 0
    /\ safe_strip(Get(LastRow, "Value", NoText)) = <<"8">>
    /\ With(TreeFor(sheet).formula_values[
                FindNode(TreeFor(sheet).formula_values, RowPath(LastRow))].element,
            LAMBDA el :
              /\ ChildText(before[1].E, el, "Defer") = <<"P1">>
              /\ ChildText(TreeFor(sheet).E, el, "Defer") = <<"P1">>
              /\ ChildText(TreeFor(sheet).E, el, "Value") = Absent)

(***************************************************************************)
(* The FormulaValueLimit block of a FormulaValue.                          *)
(***************************************************************************)
\* the value of sub-field n of the limit block of an element (the attribute,
\* for Verification); Absent when there is no block or no such sub-field
LimitValue(E, el, n) ==
    IF el \notin DOMAIN E \/ Find(E, el, "FormulaValueLimit") = NoElem THEN Absent
    ELSE IF n = "Verification"
    THEN Get(E[Find(E, el, "FormulaValueLimit")].attrib, "Verification", Absent)
    ELSE ChildText(E, Find(E, el, "FormulaValueLimit"), n)

\* the cell of a row for sub-field n of the limit block
LimitCell(r, n) == safe_strip(Get(r, FVL_PREFIX \o n, NoText))

\* the FormulaValue entity of a row after the step
RowEntityAfter(r) ==
    { n \in FormulaValuesAfter : n.fullpath = RowPath(r) }

\* C24 (FormulaValueLimit apply): when a row makes the importer call
\* update_from_dict of a FormulaValue and the call returns, each non-blank
\* FormulaValueLimit_* cell is the value of its sub-field afterwards (of the
\* Verification attribute, for that cell), in a block made for it if the
\* entity had none, and each blank cell leaves its sub-field as it was.
FormulaValueLimitApply ==
    [][(RowStepTaken /\ pc' = "rows"
        /\ (UpdatesFormulaValue(NewRowDict) \/ CreatesFormulaValue(NewRowDict))) =>
        \A n \in RowEntityAfter(NewRowDict) : \A f \in FVL_CHILDREN :
            LimitValue(StoreAfter, n.element, f) =
                (IF LimitCell(NewRowDict, f) # EmptyStr THEN LimitCell(NewRowDict, f)
                 ELSE LimitValue(StoreBefore, n.element, f))]_vars

\* the row of a FormulaValue with a limit block was read with HighValue set
\* to 5; no error was recorded, nothing is counted, and HighValue of the
\* block holds what it held
LimitCellIgnored ==
    /\ scn = "limits" /\ pc = "rows" /\ errors = <<>> /\ stats = ZeroStats
    /\ Len(rows[sheet]) >= 1
    /\ RowTag(LastRow) = <<"FormulaValue">>
    /\ LimitCell(LastRow, "HighValue") = <<"5">>
    /\ \E n \in Range(trees[1].formula_values) :
        /\ n.fullpath = RowPath(LastRow)
        /\ LimitValue(before[1].E, n.element, "HighValue") = <<"0.">>
        /\ LimitValue(trees[1].E, n.element, "HighValue") = <<"0.">>

(***************************************************************************)
(* Where a FormulaValue is created.                                        *)
(***************************************************************************)
\* the Step a path <rid>/Steps/Step[<name>]/FormulaValue[<n>] leads to from
\* the root: the Step of that name in the Steps container; NoElem if none
AddressedStep(E, fp) ==
    IF Find(E, RootId, "Steps") = NoElem THEN NoElem
    ELSE With(SelectSeq(FindAll(E, Find(E, RootId, "Steps"), "Step"),
                        LAMBDA st : E[Find(E, st, "Name")].text = StepGroup(fp)),
              LAMBDA found : IF found = <<>> THEN NoElem ELSE Head(found))

\* C25 (FormulaValue creation anchor): when a row creates a FormulaValue and
\* its path leads to a Step of the document, the children of that Step
\* afterwards are its children before followed by one new FormulaValue
\* element.
FormulaValueCreationAnchor ==
    [][(RowStepTaken /\ pc' = "rows" /\ CreatesFormulaValue(NewRowDict)
        /\ AddressedStep(StoreBefore, RowPath(NewRowDict)) # NoElem) =>
        With(AddressedStep(StoreBefore, RowPath(NewRowDict)),
             LAMBDA st :
               \E el \in DOMAIN StoreAfter :
                  /\ el \notin DOMAIN StoreBefore
                  /\ StoreAfter[el].tag = "FormulaValue"
                  /\ StoreAfter[st].kids = Append(StoreBefore[st].kids, el))]_vars

\* a row with the path TW/Steps/Step[S2]/FormulaValue[C] created C as the
\* last child of the sub-step S2 of S1; the Step S2 of the Steps container
\* has the children it had
CreatedInSubStep ==
    /\ scn = "twins" /\ pc = "rows" /\ stats.created = 1
    /\ \E n \in Range(trees[1].formula_values) :
        /\ n.element \notin DOMAIN before[1].E
        /\ n.fullpath = FormulaValuePath(<<"TW">>, <<"S2">>, <<"C">>)
        /\ With(GetParent(trees[1].E, n.element),
                LAMBDA st :
                  /\ NameText(trees[1].E, st) = <<"S2">>
                  /\ NameText(trees[1].E, GetParent(trees[1].E, st)) = <<"S1">>
                  /\ trees[1].E[st].kids[Len(trees[1].E[st].kids)] = n.element)
    /\ With(AddressedStep(before[1].E, FormulaValuePath(<<"TW">>, <<"S2">>, <<"C">>)),
            LAMBDA st : trees[1].E[st].kids = before[1].E[st].kids)

(***************************************************************************)
(* The path of a Parameter entity and its Name.                            *)
(***************************************************************************)
\* the path extract_nodes computes for a Parameter element as the tree is
PathFromTree(E, el) == ParameterPath(RecipeId(E), OrEmpty(ChildText(E, el, "Name")))

\* C26 (Path/name agreement): once extract_nodes has run, in every state,
\* the path of every Parameter entity is <RecipeElementID>/Parameter[<Name>]
\* for the text its Name child holds in that state.
PathNameAgreement ==
    pc # "new" =>
        \A i \in DOMAIN trees : \A j \in DOMAIN trees[i].parameters :
            Find(trees[i].E, trees[i].parameters[j].element, "Name") # NoElem
            /\ trees[i].parameters[j].fullpath =
                    PathFromTree(trees[i].E, trees[i].parameters[j].element)

\* a row with Name Param1 and the FullPath of Param3 created a Parameter: its
\* Name child holds Param1 and its path is not the path of Param1
ParameterPathDisagrees ==
    /\ scn = "paths" /\ pc = "rows" /\ stats.created = 1
    /\ \E n \in Range(trees[1].parameters) :
        /\ n.element \notin DOMAIN before[1].E
        /\ ChildText(trees[1].E, n.element, "Name") = <<"Param1">>
        /\ strip(n.fullpath) = ParameterPath(<<"TEST">>, <<"Param3">>)

(***************************************************************************)
(* Counts and sizes.                                                       *)
(***************************************************************************)
\* the sheet_done events received so far
DoneEvents == SelectSeq(events, LAMBDA e : e.event = "sheet_done")

\* the sheet whose sheet_done event is the last received: sheet_stats is the
\* per-sheet record of that sheet
LastDoneSheet ==
    CHOOSE s \in DOMAIN sheetnames : sheetnames[s] = DoneEvents[Len(DoneEvents)].sheet

\* the sizes of the collections of the document of sheet s are those before
\* the import plus the created minus the deleted of a per-sheet record
SizesConserved(s, ss) ==
    /\ Len(TreeFor(s).parameters) =
            Len(before[TreeOf(sheetnames[s])].parameters)
            + ss.Parameters.Created - ss.Parameters.Deleted
    /\ Len(TreeFor(s).formula_values) =
            Len(before[TreeOf(sheetnames[s])].formula_values)
            + SumField(ss.FormulaValues, "Created") - SumField(ss.FormulaValues, "Deleted")

RECURSIVE SumEvents(_, _)
SumEvents(es, field) ==
    IF es = <<>> THEN 0 ELSE Head(es)[field] + SumEvents(Tail(es), field)

\* when a sheet is done, the sizes of the collections of its document agree
\* with the counts of the sheet
ConservedAtSheetDone ==
    (pc \in {"sheets", "returned"} /\ DoneEvents # <<>>) =>
        SizesConserved(LastDoneSheet, sheet_stats)

\* the returned counts are the sums of the counts of the sheet_done events,
\* and every matched sheet has one such event
TotalsAreSums ==
    pc = "returned" =>
        /\ stats = [created |-> SumEvents(DoneEvents, "created"),
                    updated |-> SumEvents(DoneEvents, "updated"),
                    deleted |-> SumEvents(DoneEvents, "deleted")]
        /\ \A s \in DOMAIN sheetnames : Matched(s) => Len(SheetDoneEvents(s)) = 1

\* C27 (Count conservation): at the end of each sheet, and so when
\* import_changes returns, the size of parameters of the sheet's document is
\* its size before the import plus the Parameters counted as created minus
\* those counted as deleted, and likewise for formula_values; the document
\* of a sheet that is done is not touched by the sheets after it; and the
\* counts returned are the sums of the counts of the sheet_done events.
CountConservation ==
    /\ [](ConservedAtSheetDone /\ TotalsAreSums)
    /\ [][(pc = "sheets" \/ pc = "rows") =>
            (\A s \in DOMAIN sheetnames :
                (Matched(s) /\ s < sheet) =>
                    (trees'[TreeOf(sheetnames[s])] = trees[TreeOf(sheetnames[s])]))]_vars

\* an import returned; for one document two Parameters were created and
\* entities of both kinds deleted, and both collections changed size
SizesChanged ==
    /\ pc = "returned"
    /\ \E s \in DOMAIN sheetnames :
        /\ Matched(s)
        /\ SheetDoneEvents(s)[1].created = 2
        /\ SheetDoneEvents(s)[1].deleted >= 2
        /\ Len(TreeFor(s).parameters) # Len(before[TreeOf(sheetnames[s])].parameters)
        /\ Len(TreeFor(s).formula_values)
                < Len(before[TreeOf(sheetnames[s])].formula_values)

(***************************************************************************)
(* A second import of the same workbook.                                   *)
(***************************************************************************)
\* import_changes run again on the tree of sheet s as it is, with the rows
\* the sheet holds
Again(s) == Reconcile(TreeFor(s), sheetnames[s], header, rows[s])

\* C28 (Import idempotence): when import_changes has returned, importing the
\* same workbook again into the resulting trees ends normally with no row
\* error, counts nothing as created, updated or deleted, and leaves every
\* tree and its collections as they are.
ImportIdempotence ==
    pc = "returned" =>
        \A s \in DOMAIN sheetnames :
            Matched(s) =>
                With(Again(s),
                     LAMBDA R :
                       /\ R.exc = NoExc
                       /\ R.c.errors = <<>>
                       /\ R.c.stats = ZeroStats
                       /\ R.t = TreeFor(s))

\* the row of FV_EXPR was imported with Real set to 1, as the only change to
\* the exported sheet, and counted as one update; a second import of the same
\* sheet counts one update again
SecondImportUpdates ==
    /\ scn = "expr" /\ pc = "returned"
    /\ Len(rows[1]) = Len(sheet_data[1])
    /\ stats = [created |-> 0, updated |-> 1, deleted |-> 0]
    /\ ChildText(trees[1].E, trees[1].formula_values[1].element, "Real") = <<"1">>
    /\ Again(1).exc = NoExc
    /\ Again(1).c.stats = [created |-> 0, updated |-> 1, deleted |-> 0]

(***************************************************************************)
(* A create that raises.                                                   *)
(***************************************************************************)
\* the step called create_parameter
CreatesParameter(r) ==
    /\ ImportTypeCount(r) <= IMPORT_TYPE_LIMIT
    /\ RowTag(r) = <<"Parameter">>
    /\ FindNode(TreeFor(sheet).parameters, RowPath(r)) = 0

\* the Parameter and FormulaValue elements in the tree of a store
EntitiesAttached(E) ==
    { el \in DOMAIN E : E[el].tag \in {"Parameter", "FormulaValue"} /\ Attached(E, el) }

\* C29 (Failed create is atomic): when a row makes the importer call
\* create_parameter or create_formulavalue and the call raises, the tree
\* holds the Parameter and FormulaValue elements it held, and parameters and
\* formula_values are unchanged.
FailedCreateAtomic ==
    [][(RowStepTaken /\ pc' = "crashed"
        /\ (CreatesParameter(NewRowDict) \/ CreatesFormulaValue(NewRowDict))) =>
        /\ EntitiesAttached(StoreAfter) = EntitiesAttached(StoreBefore)
        /\ trees'[TreeOf(sheetnames[sheet])].parameters = TreeFor(sheet).parameters
        /\ trees'[TreeOf(sheetnames[sheet])].formula_values
                = TreeFor(sheet).formula_values]_vars

\* create_parameter raised ValidationError for a row with no data type; the
\* collections are as before and the tree holds a Parameter element, with
\* the Name of the row, that no entity wraps
FailedCreateLeftElement ==
    /\ scn = "create" /\ pc = "crashed" /\ exc = "ValidationError"
    /\ CreatesParameter(LastRow)
    /\ \E el \in EntitiesAttached(trees[1].E) :
        /\ el \notin Wrapped(trees[1])
        /\ trees[1].E[el].tag = "Parameter"
        /\ ChildText(trees[1].E, el, "Name") = RowName(LastRow)

(***************************************************************************)
(* The files XMLWriter.write writes.                                       *)
(***************************************************************************)
\* C30 (Write is all-or-nothing): when XMLWriter.write has ended, it has
\* written the file of every tree or of none; when it ended because
\* reorder_children raised, it has written no file (each entry of `written`
\* is a file on disk and the file_written event emitted after it).
WriteAllOrNothing ==
    /\ pc \in {"written", "write_failed"} => Len(written) \in {0, Len(trees)}
    /\ pc = "write_failed" => written = <<>>

\* import_changes returned for two documents; write wrote the file of the
\* first, reorder_children raised for a node of the second, and the command
\* ended with code 1
PartialWrite ==
    /\ pc = "write_failed" /\ exit_code = 1
    /\ calls = << "parse", "import_changes", "write" >>
    /\ Len(trees) = 2
    /\ Len(written) = 1
    /\ written[1].filepath = trees[1].filepath
    /\ exc = "ValidationError"

====
